---- MODULE Spec2Model ----
(***************************************************************************)
(* Generation orchestration of the novel service: the creation request     *)
(* (NovelInit.post), the background runner (novelist_bg_task_runner), the  *)
(* retry request (NovelRetries.post), the orchestrator cursor (Novelist)   *)
(* and the failure recording of services/error_handler.py, over the        *)
(* persisted store of Novel and Chapter rows.                              *)
(*                                                                         *)
(* Every db.session.commit() of the code is one step: the rows another     *)
(* thread (a poll, a retry request, a runner) can read are exactly the     *)
(* values of `novels` and `chapters`.                                      *)
(***************************************************************************)
EXTENDS Integers, Sequences, FiniteSets, TLC

(* ------------------------------ bounds --------------------------------- *)

\* Work Items that can be created in one run (ids 1..MaxNovels).
MaxNovels == 2
\* Requested lengths are 2000, 4000, ..., 2000 * MaxLenUnits characters.
MaxLenUnits == 3
\* Distinct texts the provider can return for a chapter.
NumTexts == 1
\* Retry requests that can be in flight at the same time.
MaxRetryReqs == 2
\* Distinct texts the provider can return when calls are repeated for a
\* stored Work Item.
MaxRewrites == 2

(* ----------------------------- constants ------------------------------- *)

\* models.py NovelStatus
PENDING == "PENDING"
GENERATING == "GENERATING"
COMPLETED == "COMPLETED"
FAILED == "FAILED"
NovelStatus == {PENDING, GENERATING, COMPLETED, FAILED}

\* The placeholder content of a chapter row that has not been generated.
NO_CONTENT == "NO CONTENT"

\* calc_chapter_count: below this length a novel has one chapter.
SingleChapterBelow == 4000
\* calc_chapter_count: characters per chapter at or above that length.
CharsPerChapter == 2000

NovelIds == 1 .. MaxNovels
RetryIds == 1 .. MaxRetryReqs
\* One runner per creation and one per accepted retry request.
RunnerIds == 1 .. (MaxNovels + MaxRetryReqs)
Lengths == {CharsPerChapter * u : u \in 1 .. MaxLenUnits}
Text(i) == "chapter text " \o ToString(i)
Texts == {Text(i) : i \in 1 .. NumTexts}
Rewrites == {Text(i) : i \in 1 .. MaxRewrites}

VARIABLES
    novels,     \* Novel rows: id -> [exists, status, text_length, plots]
    chapters,   \* Chapter rows of each novel, in insertion order
    creators,   \* NovelInit.post handler of each novel id
    retriers,   \* NovelRetries.post handlers
    runners,    \* novelist_bg_task_runner threads; failed_at records the
                \* chapter whose generation failed in the thread
    trouble,    \* history: novels for which a generation or a commit failed
    direct      \* a call made directly on a Novelist or a helper function,
                \* outside the request handlers: its inputs and its outcome

vars == <<novels, chapters, creators, retriers, runners, trouble, direct>>

(* ------------------------------ Novelist ------------------------------- *)

\* Novelist.__init__: the cursor and the continuity context of a fresh
\* orchestrator.
NewNovelist ==
    [next_chapter_num |-> 1, chapter_count |-> 0, previous_chapter_content |-> "",
     total_text_length |-> 0]

\* calc_chapter_count with 4000 itself still giving one chapter.
calc_chapter_count_inclusive(text_length) ==
    IF text_length <= SingleChapterBelow THEN 1 ELSE text_length \div CharsPerChapter

\* Novelist.calc_chapter_count
calc_chapter_count(text_length) ==
    IF text_length < SingleChapterBelow THEN 1 ELSE text_length \div CharsPerChapter

\* is_completed true one chapter late.
is_completed_late(novelist) ==
    novelist.next_chapter_num = novelist.chapter_count + 2

\* Novelist.is_completed
is_completed(novelist) ==
    novelist.next_chapter_num = novelist.chapter_count + 1

\* write_next_chapter moving the cursor two chapters on.
write_next_chapter_skipping(novelist, text) ==
    [novelist EXCEPT !.previous_chapter_content = text,
                     !.next_chapter_num = @ + 2,
                     !.total_text_length = @ + Len(text)]

\* Novelist.write_next_chapter, on a successful generate_chapter returning
\* `text`: the text becomes the continuity context and the cursor advances.
write_next_chapter(novelist, text) ==
    [novelist EXCEPT !.previous_chapter_content = text,
                     !.next_chapter_num = @ + 1,
                     !.total_text_length = @ + Len(text)]

\* Python's None, where a text is expected.
NoneValue == "<None>"

\* The previous_chapter argument write_next_chapter hands to
\* generate_chapter.
previous_chapter(novelist) ==
    IF novelist.next_chapter_num # 1 THEN novelist.previous_chapter_content
    ELSE NoneValue

\* Novelist.load_from_init_data: chapter_count is the number of chapter_plots
\* of the persisted plan; the cursor is not restored.
load_from_init_data(plots) ==
    [NewNovelist EXCEPT !.chapter_count = plots]

\* Novelist.retry_failed_chapter raises ValueError for a chapter number
\* outside 1..chapter_count.
retry_number_valid(novelist, chapter_number) ==
    ~(chapter_number < 1 \/ chapter_number > novelist.chapter_count)

\* What generate_chapter gives when it raises instead of returning a text.
GenerationError == "<GeminiAPIError>"

\* write_next_chapter losing the continuity context when generate_chapter
\* raises.
write_next_chapter_call_clearing(novelist, generated) ==
    IF generated = GenerationError
    THEN [raised |-> "GeminiAPIError", content |-> NoneValue,
          novelist |-> [novelist EXCEPT !.previous_chapter_content = NoneValue]]
    ELSE [raised |-> "", content |-> generated,
          novelist |-> write_next_chapter(novelist, generated)]

\* Novelist.write_next_chapter() when generate_chapter gives `generated`: the
\* exception raised ("" when it returns), the content returned and the
\* Novelist afterwards.  The assignment of previous_chapter_content and the
\* two increments come after the call and are skipped when it raises.
write_next_chapter_call(novelist, generated) ==
    IF generated = GenerationError
    THEN [raised |-> "GeminiAPIError", content |-> NoneValue,
          novelist |-> novelist]
    ELSE [raised |-> "", content |-> generated,
          novelist |-> write_next_chapter(novelist, generated)]

\* retry_failed_chapter with the cursor set to the chapter after the retried
\* one.
retry_failed_chapter_moving(novelist, chapter_number, previous_content, generated) ==
    [raised |-> "", provider_calls |-> 1, previous_chapter |-> previous_content,
     content |-> generated,
     novelist |-> [novelist EXCEPT !.next_chapter_num = chapter_number + 1,
                                   !.previous_chapter_content = generated]]

\* Novelist.retry_failed_chapter(chapter_number, previous_content) when
\* generate_chapter gives `generated`: the exception raised ("" when it
\* returns), the number of calls of the provider, the previous_chapter
\* handed to it, the content returned and the Novelist afterwards.
retry_failed_chapter(novelist, chapter_number, previous_content, generated) ==
    LET prev == IF previous_content # NoneValue THEN previous_content
                ELSE IF chapter_number = 1 THEN NoneValue
                ELSE IF novelist.next_chapter_num > chapter_number
                     THEN novelist.previous_chapter_content
                     ELSE NoneValue
    IN  IF chapter_number < 1 \/ chapter_number > novelist.chapter_count
        THEN [raised |-> "ValueError", provider_calls |-> 0,
              previous_chapter |-> NoneValue, content |-> NoneValue,
              novelist |-> novelist]
        ELSE IF generated = GenerationError
        THEN [raised |-> "GeminiAPIError", provider_calls |-> 1,
              previous_chapter |-> prev, content |-> NoneValue,
              novelist |-> novelist]
        ELSE [raised |-> "", provider_calls |-> 1,
              previous_chapter |-> prev, content |-> generated,
              novelist |-> novelist]

(* ------------------------------- store --------------------------------- *)

NoNovel == [exists |-> FALSE, status |-> PENDING, text_length |-> 0, plots |-> 0]

\* A chapter row as NovelInit.post inserts it.
Placeholder(number) ==
    [chapter_number |-> number, content |-> NO_CONTENT, status |-> PENDING]

\* list_finder(chapters_data, lambda x: x.chapter_number == number) over the
\* first `seen` rows: the index of the first match, 0 for the code's -1.
list_finder(rows, seen, number) ==
    LET hits == {i \in 1 .. seen : rows[i].chapter_number = number}
    IN  IF hits = {} THEN 0 ELSE CHOOSE i \in hits : \A j \in hits : i <= j

\* The first row in chapter_number order with the given status, 0 if none
\* (the loop of NovelRetries.post over the ordered chapters).
first_with_status(rows, status) ==
    LET hits == {i \in 1 .. Len(rows) : rows[i].status = status}
    IN  IF hits = {} THEN 0
        ELSE CHOOSE i \in hits :
                 \A j \in hits : rows[i].chapter_number <= rows[j].chapter_number

\* query(Chapter).filter_by(novel_id, chapter_number=number).first(), 0 if none.
row_with_number(rows, number) == list_finder(rows, Len(rows), number)

(* -------------------------- failure recording -------------------------- *)

\* error_handler.py imports `datetime` alone, and every status writer
\* evaluates datetime.now(timezone.utc) between setting the status and the
\* commit: the name `timezone` is unbound, the NameError is caught by the
\* writer's own except clause, which rolls the session back.
timezone_is_bound == FALSE

\* mark_chapter_as_failed: the chapter rows it leaves persisted.
mark_chapter_as_failed(rows, row) ==
    IF row \notin 1 .. Len(rows) THEN rows
    ELSE IF timezone_is_bound THEN [rows EXCEPT ![row].status = FAILED]
    ELSE rows

\* mark_novel_as_failed: the novel row and chapter rows it leaves persisted;
\* `row` is the failed chapter, 0 when no chapter is named.
mark_novel_as_failed(novel, rows, row) ==
    IF ~novel.exists \/ ~timezone_is_bound
    THEN [novel |-> novel, rows |-> rows]
    ELSE [novel |-> [novel EXCEPT !.status = FAILED],
          rows  |-> IF row \in 1 .. Len(rows)
                    THEN [rows EXCEPT ![row].status = FAILED] ELSE rows]

\* handle_chapter_generation_failure: mark_chapter_as_failed, then
\* mark_novel_as_failed with the same chapter.
handle_chapter_generation_failure(novel, rows, row) ==
    mark_novel_as_failed(novel, mark_chapter_as_failed(rows, row), row)

(* ------------------------------ threads -------------------------------- *)

IdleCreator == [pc |-> "idle", resp |-> 0, novelist |-> NewNovelist]

IdleRetrier ==
    [pc |-> "idle", novel_id |-> 0, row |-> 0,
     previous_content |-> "", novelist |-> NewNovelist]

FreeRunner ==
    [pc |-> "free", novel_id |-> 0, start_from_chapter |-> 0, seen |-> 0,
     row |-> 0, failed_at |-> 0, novelist |-> NewNovelist]

\* threading.Thread(target=novelist_bg_task_runner, args=...).start(): the
\* new thread takes the first unused runner record.
start_thread(rs, novel_id, novelist, start_from_chapter) ==
    LET free == {r \in RunnerIds : rs[r].pc = "free"}
        r == CHOOSE x \in free : \A y \in free : x <= y
    IN  [rs EXCEPT ![r] = [FreeRunner EXCEPT !.pc = "start",
                                             !.novel_id = novel_id,
                                             !.novelist = novelist,
                                             !.start_from_chapter =
                                                 start_from_chapter]]

CanStartThread(rs) == \E r \in RunnerIds : rs[r].pc = "free"

\* No direct call was made.
NoCall == [op |-> "none"]

(* ------------------------------- Init ---------------------------------- *)

\* init_db on a fresh database file: no Novel row, no Chapter row, no
\* request in flight, no runner.
Init ==
    /\ novels = [n \in NovelIds |-> NoNovel]
    /\ chapters = [n \in NovelIds |-> <<>>]
    /\ creators = [n \in NovelIds |-> IdleCreator]
    /\ retriers = [q \in RetryIds |-> IdleRetrier]
    /\ runners = [r \in RunnerIds |-> FreeRunner]
    /\ trouble = {}
    /\ direct = NoCall

\* A database file that already holds one Work Item in the state the failure
\* path is documented to leave (mark_novel_as_failed: the novel FAILED, the
\* failed chapter FAILED, the chapters after it PENDING), with the chapters
\* before the failed one COMPLETED: the input of a retry request.
StoredFailedNovel(count, failed) ==
    [n \in NovelIds |->
        IF n = 1
        THEN [exists |-> TRUE, status |-> FAILED,
              text_length |-> CharsPerChapter * count, plots |-> count]
        ELSE NoNovel]

StoredFailedChapters(count, failed) ==
    [n \in NovelIds |->
        IF n = 1
        THEN [i \in 1 .. count |->
                 IF i < failed
                 THEN [chapter_number |-> i, content |-> Text(1),
                       status |-> COMPLETED]
                 ELSE IF i = failed
                 THEN [Placeholder(i) EXCEPT !.status = FAILED]
                 ELSE Placeholder(i)]
        ELSE <<>>]

InitStored ==
    /\ \E count \in 1 .. MaxLenUnits, failed \in 1 .. MaxLenUnits :
          /\ failed <= count
          /\ novels = StoredFailedNovel(count, failed)
          /\ chapters = StoredFailedChapters(count, failed)
    /\ creators = [n \in NovelIds |-> IdleCreator]
    /\ retriers = [q \in RetryIds |-> IdleRetrier]
    /\ runners = [r \in RunnerIds |-> FreeRunner]
    /\ trouble = {}
    /\ direct = NoCall

\* A database that holds one Work Item in any condition a retry request can
\* find it in: any status, with or without its plan (init_data), its
\* chapters 1..count in any statuses, the COMPLETED ones with a text.
InitAnyStore ==
    /\ \E count \in 1 .. MaxLenUnits, status \in NovelStatus,
          has_plan \in BOOLEAN :
        \E statuses \in [1 .. count -> NovelStatus] :
          /\ novels = [n \in NovelIds |->
                         IF n = 1
                         THEN [exists |-> TRUE, status |-> status,
                               text_length |-> CharsPerChapter * count,
                               plots |-> IF has_plan THEN count ELSE 0]
                         ELSE NoNovel]
          /\ chapters = [n \in NovelIds |->
                           IF n = 1
                           THEN [i \in 1 .. count |->
                                   [chapter_number |-> i,
                                    content |-> IF statuses[i] = COMPLETED
                                                THEN Text(1) ELSE NO_CONTENT,
                                    status |-> statuses[i]]]
                           ELSE <<>>]
    /\ creators = [n \in NovelIds |-> IdleCreator]
    /\ retriers = [q \in RetryIds |-> IdleRetrier]
    /\ runners = [r \in RunnerIds |-> FreeRunner]
    /\ trouble = {}
    /\ direct = NoCall

(* ------------------------- NovelInit.post ------------------------------ *)

\* The requests a client can send, with what the provider answers to
\* prepare_novel: plan = 0 when generate_init fails after its retries, else
\* the length of chapter_plots in the plan it returns.
InitRequests ==
    [invalid : {"nothing", "novel_setting", "user_id", "genre"},
     text_length : Lengths, plan : 0 .. MaxLenUnits]

\* The status code of a creation request that ends before anything is
\* persisted, 0 when the request gets as far as the Novel row.
early_response(req) ==
    IF req.invalid = "novel_setting" THEN 400
    ELSE IF req.invalid = "user_id" THEN 404
    ELSE IF req.plan = 0 THEN 500
    ELSE IF req.plan # calc_chapter_count(req.text_length) THEN 500
    ELSE IF req.invalid = "genre" THEN 400
    ELSE 0

\* NovelInit.post inserting the Novel row before the request is checked.
post_to_first_commit_unchecked(n, req) ==
    /\ creators[n].pc = "idle"
    /\ ~novels[n].exists
    /\ \A m \in NovelIds : m < n => novels[m].exists
    /\ novels' = [novels EXCEPT ![n] =
                     [exists |-> TRUE, status |-> GENERATING,
                      text_length |-> req.text_length,
                      plots |-> req.plan]]
    /\ UNCHANGED <<creators, chapters, retriers, runners, trouble>>

\* NovelInit.post up to the first commit: the request is parsed, the plan is
\* obtained (prepare_novel) and checked, and the Novel row is inserted with
\* status GENERATING and the plan as init_data. A request that fails before
\* that is answered with its status code and changes nothing.
post_to_first_commit(n, req) ==
    /\ creators[n].pc = "idle"
    /\ ~novels[n].exists
    /\ \A m \in NovelIds : m < n => novels[m].exists
    /\ IF early_response(req) # 0
       THEN UNCHANGED <<novels, creators>>
       ELSE /\ novels' = [novels EXCEPT ![n] =
                            [exists |-> TRUE, status |-> GENERATING,
                             text_length |-> req.text_length,
                             plots |-> req.plan]]
            /\ creators' = [creators EXCEPT ![n] =
                              [pc |-> "novel_saved", resp |-> 0,
                               novelist |-> [NewNovelist EXCEPT
                                   !.chapter_count =
                                       calc_chapter_count(req.text_length)]]]
    /\ UNCHANGED <<chapters, retriers, runners, trouble>>

InitPost(n, req) == post_to_first_commit(n, req) /\ UNCHANGED direct

\* The same request, with the request and its early answer kept for
\* inspection.
InitPostAnswered(n, req) ==
    /\ post_to_first_commit(n, req)
    /\ direct' = [op |-> "NovelInit.post", novel_id |-> n, request |-> req,
                  code |-> early_response(req)]

\* Placeholders numbered i instead of i + 1.
placeholders_zero_based(chapter_count) ==
    [i \in 1 .. chapter_count |-> Placeholder(i - 1)]

\* The placeholder rows NovelInit.post inserts: chapter_number i + 1 for i in
\* range(chapter_count).
placeholders(chapter_count) ==
    [i \in 1 .. chapter_count |-> Placeholder(i)]

\* NovelInit.post: the chapter placeholders are inserted and committed.
InitSaveChapters(n) ==
    /\ creators[n].pc = "novel_saved"
    /\ chapters' = [chapters EXCEPT ![n] =
                      @ \o placeholders(creators[n].novelist.chapter_count)]
    /\ creators' = [creators EXCEPT ![n].pc = "chapters_saved"]
    /\ UNCHANGED <<novels, retriers, runners, trouble, direct>>

\* NovelInit.post: chapter 1 is recorded as GENERATING.
InitMarkFirst(n) ==
    /\ creators[n].pc = "chapters_saved"
    /\ chapters' = [chapters EXCEPT ![n] =
                      [@ EXCEPT ![row_with_number(@, 1)].status = GENERATING]]
    /\ creators' = [creators EXCEPT ![n].pc = "first_generating"]
    /\ UNCHANGED <<novels, retriers, runners, trouble, direct>>

\* InitFirstGenerated committing the COMPLETED status of chapter 1 without
\* its content.
InitFirstGenerated_status_only(n, text) ==
    /\ creators[n].pc = "first_generating"
    /\ chapters' = [chapters EXCEPT ![n] =
                      [@ EXCEPT ![row_with_number(@, 1)].status = COMPLETED]]
    /\ creators' = [creators EXCEPT
                      ![n].pc = "first_done",
                      ![n].novelist = write_next_chapter(@, text)]
    /\ UNCHANGED <<novels, retriers, runners, trouble, direct>>

\* NovelInit.post: write_next_chapter returned `text`; the content and the
\* COMPLETED status of chapter 1 are committed together.
InitFirstGenerated(n, text) ==
    /\ creators[n].pc = "first_generating"
    /\ chapters' = [chapters EXCEPT ![n] =
                      [@ EXCEPT ![row_with_number(@, 1)].content = text,
                                ![row_with_number(@, 1)].status = COMPLETED]]
    /\ creators' = [creators EXCEPT
                      ![n].pc = "first_done",
                      ![n].novelist = write_next_chapter(@, text)]
    /\ UNCHANGED <<novels, retriers, runners, trouble, direct>>

\* NovelInit.post: write_next_chapter raised; the handler's except clause
\* answers 500 and writes nothing.
InitFirstFailed(n) ==
    /\ creators[n].pc = "first_generating"
    /\ creators' = [creators EXCEPT ![n].pc = "done", ![n].resp = 500]
    /\ trouble' = trouble \cup {n}
    /\ UNCHANGED <<novels, chapters, retriers, runners, direct>>

\* The body of the 200 response of NovelInit.post: the chapter count of the
\* handler's Novelist and the text write_next_chapter returned, which is the
\* Novelist's previous_chapter_content.
init_response_body(novelist) ==
    [total_chapter_number |-> novelist.chapter_count,
     first_chapter_text |-> novelist.previous_chapter_content]

\* NovelInit.post: the background runner is started on the handler's own
\* Novelist and the request answers 200.
InitLaunch(n) ==
    /\ creators[n].pc = "first_done"
    /\ CanStartThread(runners)
    /\ runners' = start_thread(runners, n, creators[n].novelist, 0)
    /\ creators' = [creators EXCEPT ![n].pc = "done", ![n].resp = 200]
    /\ UNCHANGED <<novels, chapters, retriers, trouble, direct>>

(* --------------------- novelist_bg_task_runner ------------------------- *)

\* novelist_bg_task_runner up to its first commit: start_from_chapter, when
\* given, overwrites the cursor; the chapter rows are read once
\* (chapters_data); a missing Novel row ends the task; the novel is committed
\* as GENERATING.
RunnerStart(r) ==
    LET n == runners[r].novel_id
        from == runners[r].start_from_chapter
        novelist == IF from # 0
                    THEN [runners[r].novelist EXCEPT !.next_chapter_num = from]
                    ELSE runners[r].novelist
    IN  /\ runners[r].pc = "start"
        /\ IF ~novels[n].exists
           THEN /\ runners' = [runners EXCEPT ![r].pc = "no_novel",
                                              ![r].novelist = novelist]
                /\ UNCHANGED novels
           ELSE /\ novels' = [novels EXCEPT ![n].status = GENERATING]
                /\ runners' = [runners EXCEPT ![r].pc = "loop",
                                              ![r].novelist = novelist,
                                              ![r].seen = Len(chapters[n])]
        /\ UNCHANGED <<chapters, creators, retriers, trouble, direct>>

\* The chapter rows after the runner's loop has picked the row of the cursor's
\* chapter and set it GENERATING: the row list_finder finds among the rows read
\* at the start, or, when there is none, a new row numbered
\* next_chapter_num - 1.
runner_marked(rows, seen, novelist) ==
    LET chpind == list_finder(rows, seen, novelist.next_chapter_num)
    IN  IF chpind = 0
        THEN Append(rows, [chapter_number |-> novelist.next_chapter_num - 1,
                           content |-> NO_CONTENT, status |-> GENERATING])
        ELSE [rows EXCEPT ![chpind].status = GENERATING]

\* The index of that row.
runner_row(rows, seen, novelist) ==
    LET chpind == list_finder(rows, seen, novelist.next_chapter_num)
    IN  IF chpind = 0 THEN Len(rows) + 1 ELSE chpind

\* The runner's loop, not completed: the chapter of the cursor is committed as
\* GENERATING.
RunnerMarkChapter(r) ==
    LET n == runners[r].novel_id
    IN  /\ runners[r].pc = "loop"
        /\ ~is_completed(runners[r].novelist)
        /\ chapters' = [chapters EXCEPT ![n] =
                          runner_marked(@, runners[r].seen, runners[r].novelist)]
        /\ runners' = [runners EXCEPT
                         ![r].pc = "generate",
                         ![r].row = runner_row(chapters[n], runners[r].seen,
                                               runners[r].novelist)]
        /\ UNCHANGED <<novels, creators, retriers, trouble, direct>>

\* RunnerGenerated committing the COMPLETED status without the content.
RunnerGenerated_status_only(r, text) ==
    /\ runners[r].pc = "generate"
    /\ chapters' = [chapters EXCEPT ![runners[r].novel_id] =
                      [@ EXCEPT ![runners[r].row].status = COMPLETED]]
    /\ runners' = [runners EXCEPT
                     ![r].pc = "loop",
                     ![r].novelist = write_next_chapter(@, text)]
    /\ UNCHANGED <<novels, creators, retriers, trouble, direct>>

\* The runner's loop: write_next_chapter returned `text`; the content and the
\* COMPLETED status are committed together and the loop goes on.
RunnerGenerated(r, text) ==
    LET n == runners[r].novel_id
        row == runners[r].row
    IN  /\ runners[r].pc = "generate"
        /\ chapters' = [chapters EXCEPT ![n] =
                          [@ EXCEPT ![row].content = text,
                                    ![row].status = COMPLETED]]
        /\ runners' = [runners EXCEPT
                         ![r].pc = "loop",
                         ![r].novelist = write_next_chapter(@, text)]
        /\ UNCHANGED <<novels, creators, retriers, trouble, direct>>

\* RunnerGenerationFailed with skip-and-continue: the failure is recorded and
\* the loop goes on with the next chapter.
RunnerGenerationFailed_continue(r) ==
    LET n == runners[r].novel_id
        marked == handle_chapter_generation_failure(
                      novels[n], chapters[n], runners[r].row)
    IN  /\ runners[r].pc = "generate"
        /\ novels' = [novels EXCEPT ![n] = marked.novel]
        /\ chapters' = [chapters EXCEPT ![n] = marked.rows]
        /\ runners' = [runners EXCEPT
                         ![r].pc = "loop",
                         ![r].failed_at = runners[r].novelist.next_chapter_num,
                         ![r].novelist.next_chapter_num = @ + 1]
        /\ trouble' = trouble \cup {n}
        /\ UNCHANGED <<creators, retriers, direct>>

\* The runner's inner except clause: the generation (or the commit of its
\* result) raised; handle_chapter_generation_failure runs and the task
\* returns.
RunnerGenerationFailed(r) ==
    LET n == runners[r].novel_id
        marked == handle_chapter_generation_failure(
                      novels[n], chapters[n], runners[r].row)
    IN  /\ runners[r].pc = "generate"
        /\ novels' = [novels EXCEPT ![n] = marked.novel]
        /\ chapters' = [chapters EXCEPT ![n] = marked.rows]
        /\ runners' = [runners EXCEPT
                         ![r].pc = "halted",
                         ![r].failed_at =
                             runners[r].novelist.next_chapter_num]
        /\ trouble' = trouble \cup {n}
        /\ UNCHANGED <<creators, retriers, direct>>

\* RunnerComplete committing every novel of the store as COMPLETED.
RunnerComplete_every_novel(r) ==
    /\ runners[r].pc = "loop"
    /\ is_completed(runners[r].novelist)
    /\ novels' = [m \in NovelIds |->
                    IF novels[m].exists
                    THEN [novels[m] EXCEPT !.status = COMPLETED]
                    ELSE novels[m]]
    /\ runners' = [runners EXCEPT ![r].pc = "completed"]
    /\ UNCHANGED <<chapters, creators, retriers, trouble, direct>>

\* The runner after its loop: every chapter was generated, the novel is
\* committed as COMPLETED.
RunnerComplete(r) ==
    LET n == runners[r].novel_id
    IN  /\ runners[r].pc = "loop"
        /\ is_completed(runners[r].novelist)
        /\ novels' = [novels EXCEPT ![n].status = COMPLETED]
        /\ runners' = [runners EXCEPT ![r].pc = "completed"]
        /\ UNCHANGED <<chapters, creators, retriers, trouble, direct>>

\* The runner's outer except clause: a query or a commit outside the inner
\* try raised (the store was unavailable); what that commit would have
\* written is not persisted, mark_novel_as_failed is called without a chapter
\* and the task ends.
RunnerCriticalError(r) ==
    LET n == runners[r].novel_id
        marked == mark_novel_as_failed(novels[n], chapters[n], 0)
    IN  /\ runners[r].pc \in {"start", "loop"}
        /\ novels' = [novels EXCEPT ![n] = marked.novel]
        /\ chapters' = [chapters EXCEPT ![n] = marked.rows]
        /\ runners' = [runners EXCEPT ![r].pc = "crashed"]
        /\ trouble' = trouble \cup {n}
        /\ UNCHANGED <<creators, retriers, direct>>

\* RunnerRecordingFailed without the try around the outer clause's
\* mark_novel_as_failed: the exception leaves the thread's target function.
RunnerRecordingFailed_escapes(r) ==
    /\ runners[r].pc = "generate"
    /\ runners' = [runners EXCEPT
                     ![r].pc = "raised",
                     ![r].failed_at = runners[r].novelist.next_chapter_num]
    /\ trouble' = trouble \cup {runners[r].novel_id}
    /\ UNCHANGED <<novels, chapters, creators, retriers, direct>>

\* The generation raised and the failure recording raised too (the store is
\* unavailable: the writers' own session.rollback() raises out of
\* handle_chapter_generation_failure): the exception raised inside the inner
\* except clause is caught by the outer one, whose mark_novel_as_failed is
\* wrapped in a try of its own; that error is logged and the task ends.
\* Nothing is written.
RunnerRecordingFailed(r) ==
    /\ runners[r].pc = "generate"
    /\ runners' = [runners EXCEPT
                     ![r].pc = "crashed",
                     ![r].failed_at = runners[r].novelist.next_chapter_num]
    /\ trouble' = trouble \cup {runners[r].novel_id}
    /\ UNCHANGED <<novels, chapters, creators, retriers, direct>>

(* ------------------------- NovelRetries.post --------------------------- *)

\* What a retry request carries: whether it has a body with a user_id, and
\* whether that user owns the novel.
RetryRequests == [user_id_ok : BOOLEAN, owner_ok : BOOLEAN]

\* retry_rejection without the check of the previous chapter.
retry_rejection_unchained(novel, rows, req) ==
    IF ~req.user_id_ok THEN 400
    ELSE IF ~novel.exists THEN 404
    ELSE IF ~req.owner_ok THEN 403
    ELSE IF novel.status # FAILED THEN 400
    ELSE IF novel.plots = 0 THEN 500
    ELSE IF first_with_status(rows, FAILED) = 0 THEN 400
    ELSE 0

\* The status code with which NovelRetries.post rejects a request for novel n
\* before it changes anything, 0 when the request is accepted.
retry_rejection(novel, rows, req) ==
    LET failed == first_with_status(rows, FAILED)
        number == rows[failed].chapter_number
        prev == row_with_number(rows, number - 1)
    IN  IF ~req.user_id_ok THEN 400
        ELSE IF ~novel.exists THEN 404
        ELSE IF ~req.owner_ok THEN 403
        ELSE IF novel.status # FAILED THEN 400
        ELSE IF novel.plots = 0 THEN 500
        ELSE IF failed = 0 THEN 400
        ELSE IF number > 1 /\ (prev = 0 \/ rows[prev].status # COMPLETED) THEN 500
        ELSE 0

\* The content of the chapter before `row`, None (here "") for chapter 1.
retry_previous_content(rows, row) ==
    IF rows[row].chapter_number > 1
    THEN rows[row_with_number(rows, rows[row].chapter_number - 1)].content
    ELSE ""

\* NovelRetries.post up to the rebuilt Novelist: the checks, the first FAILED
\* chapter, the previous chapter's content, load_from_init_data. A rejected
\* request is answered with its status code and changes nothing; an accepted
\* one is handled by the first idle handler.
RetryPost(q, n, req) ==
    LET code == retry_rejection(novels[n], chapters[n], req)
        row == first_with_status(chapters[n], FAILED)
    IN  /\ retriers[q].pc = "idle"
        /\ \A p \in RetryIds : p < q => retriers[p].pc # "idle"
        /\ IF code # 0
           THEN UNCHANGED retriers
           ELSE retriers' = [retriers EXCEPT ![q] =
                               [pc |-> "mark", novel_id |-> n,
                                row |-> row,
                                previous_content |->
                                    retry_previous_content(chapters[n], row),
                                novelist |->
                                    load_from_init_data(novels[n].plots)]]
        /\ UNCHANGED <<novels, chapters, creators, runners, trouble, direct>>

\* NovelRetries.post: the failed chapter is committed as GENERATING.
RetryMark(q) ==
    LET n == retriers[q].novel_id
    IN  /\ retriers[q].pc = "mark"
        /\ chapters' = [chapters EXCEPT ![n] =
                          [@ EXCEPT ![retriers[q].row].status = GENERATING]]
        /\ retriers' = [retriers EXCEPT ![q].pc = "regenerate"]
        /\ UNCHANGED <<novels, creators, runners, trouble, direct>>

\* NovelRetries.post: retry_failed_chapter returned `text`; the chapter's
\* content and COMPLETED status and the novel's GENERATING status are
\* committed together, and the Novelist is re-armed at the next chapter.
RetryRegenerated(q, text) ==
    LET n == retriers[q].novel_id
        row == retriers[q].row
        number == chapters[n][row].chapter_number
    IN  /\ retriers[q].pc = "regenerate"
        /\ retry_number_valid(retriers[q].novelist, number)
        /\ chapters' = [chapters EXCEPT ![n] =
                          [@ EXCEPT ![row].content = text,
                                    ![row].status = COMPLETED]]
        /\ novels' = [novels EXCEPT ![n].status = GENERATING]
        /\ retriers' = [retriers EXCEPT
                          ![q].pc = "launch",
                          ![q].novelist =
                              [@ EXCEPT !.next_chapter_num = number + 1,
                                        !.previous_chapter_content = text]]
        /\ UNCHANGED <<creators, runners, trouble, direct>>

\* NovelRetries.post: retry_failed_chapter raised; the handler's except
\* clause answers 500 and writes nothing.
RetryRegenerationFailed(q) ==
    /\ retriers[q].pc = "regenerate"
    /\ retriers' = [retriers EXCEPT ![q] = IdleRetrier]
    /\ trouble' = trouble \cup {retriers[q].novel_id}
    /\ UNCHANGED <<novels, chapters, creators, runners, direct>>

\* RetryLaunch answering without starting a runner or completing the novel.
RetryLaunch_nothing(q) ==
    /\ retriers[q].pc = "launch"
    /\ retriers' = [retriers EXCEPT ![q] = IdleRetrier]
    /\ UNCHANGED <<novels, chapters, creators, runners, trouble, direct>>

\* NovelRetries.post: with chapters left the background runner is started at
\* the next chapter, else the novel is committed as COMPLETED; the request
\* answers 200.
RetryLaunch(q) ==
    LET n == retriers[q].novel_id
        novelist == retriers[q].novelist
    IN  /\ retriers[q].pc = "launch"
        /\ IF novelist.next_chapter_num <= novelist.chapter_count
           THEN /\ CanStartThread(runners)
                /\ runners' = start_thread(runners, n, novelist,
                                           novelist.next_chapter_num)
                /\ UNCHANGED novels
           ELSE /\ novels' = [novels EXCEPT ![n].status = COMPLETED]
                /\ UNCHANGED runners
        /\ retriers' = [retriers EXCEPT ![q] = IdleRetrier]
        /\ UNCHANGED <<chapters, creators, trouble, direct>>

(* -------------------------- NovelContent.get --------------------------- *)

\* query(Chapter).order_by(Chapter.chapter_number): the rows in chapter
\* order, rows of equal number in insertion order.
order_by_chapter_number(rows) ==
    LET len == Len(rows)
        ordered(f) ==
            /\ \A i, j \in 1 .. len : i # j => f[i] # f[j]
            /\ \A i, j \in 1 .. len : i < j =>
                  \/ rows[f[i]].chapter_number < rows[f[j]].chapter_number
                  \/ /\ rows[f[i]].chapter_number = rows[f[j]].chapter_number
                     /\ f[i] < f[j]
        same == [i \in 1 .. len |-> i]
        f == IF ordered(same) THEN same
             ELSE CHOOSE g \in [1 .. len -> 1 .. len] : ordered(g)
    IN  [i \in 1 .. len |-> rows[f[i]]]

\* chapters[i] of Python for a list held as a sequence: 0 is the first
\* element and a negative i counts from the end; 0 when i is out of range
\* (IndexError).
list_index(rows, i) ==
    LET at == IF i >= 0 THEN i + 1 ELSE Len(rows) + i + 1
    IN  IF at \in 1 .. Len(rows) THEN at ELSE 0

\* The loop `for i in range(current_index, len(chapters))` of
\* NovelContent.get from position i on: the COMPLETED chapters are appended
\* with index i + 1 until the first chapter that is not COMPLETED.
RECURSIVE new_chapters(_, _)
new_chapters(rows, i) ==
    IF i >= Len(rows) \/ list_index(rows, i) = 0 THEN <<>>
    ELSE IF rows[list_index(rows, i)].status = COMPLETED
         THEN <<[index |-> i + 1,
                 content |-> rows[list_index(rows, i)].content]>>
              \o new_chapters(rows, i + 1)
         ELSE <<>>

\* The indexes a client sends as X-Current-Index.
PollIndexes == -1 .. MaxLenUnits + 1

\* NovelContent.get for an existing novel polled by its owner: the status
\* code and the body.
NovelContent_get(novel, rows, current_index) ==
    LET ordered == order_by_chapter_number(rows)
        current == first_with_status(ordered, GENERATING)
        failed == first_with_status(ordered, FAILED)
        first == IF current = 0 THEN failed
                 ELSE IF failed = 0 THEN current
                 ELSE IF current < failed THEN current ELSE failed
    IN  IF current_index < Len(ordered) /\ list_index(ordered, current_index) = 0
        THEN [code |-> 500, novel_status |-> novel.status,
              current_chapter |-> 0, total_chapter_number |-> 0,
              new_chapters |-> <<>>]
        ELSE [code |-> 200, novel_status |-> novel.status,
              current_chapter |->
                  IF first = 0 \/ ordered[first].chapter_number = 0
                  THEN Len(ordered) ELSE ordered[first].chapter_number,
              total_chapter_number |-> Len(ordered),
              new_chapters |-> new_chapters(ordered, current_index)]

\* NovelContent.get writing the polled index into the first chapter row.
Poll_writing(n, current_index) ==
    /\ novels[n].exists
    /\ direct' = [op |-> "poll", novel_id |-> n,
                  current_index |-> current_index,
                  response |-> NovelContent_get(novels[n], chapters[n],
                                                current_index)]
    /\ chapters' = [chapters EXCEPT ![n] =
                      IF @ = <<>> THEN @
                      ELSE [@ EXCEPT ![1].content = NO_CONTENT]]
    /\ UNCHANGED <<novels, creators, retriers, runners, trouble>>

\* NovelContent.get: the owner of novel n polls with a last-seen index; the
\* response is what the rows hold at that moment, and nothing is written.
\* (A poll without its headers, for a novel that does not exist or by
\* another user is answered 401, 404 or 403 before any row is read.)
Poll(n, current_index) ==
    /\ novels[n].exists
    /\ direct' = [op |-> "poll", novel_id |-> n,
                  current_index |-> current_index,
                  response |-> NovelContent_get(novels[n], chapters[n],
                                                current_index)]
    /\ UNCHANGED <<novels, chapters, creators, retriers, runners, trouble>>

\* The chapters a client holds for novel n: what its polls have returned so
\* far, none before its first poll.
Received(n) ==
    IF direct.op = "client" /\ direct.novel_id = n THEN direct.received ELSE <<>>

\* A client following novel n polls with the number of chapters it holds as
\* X-Current-Index and appends the new_chapters of a 200 answer to them.
ClientPoll(n) ==
    LET response == NovelContent_get(novels[n], chapters[n], Len(Received(n)))
    IN  /\ novels[n].exists
        /\ direct.op \in {"none", "client"}
        /\ direct.op = "client" => direct.novel_id = n
        /\ direct' = [op |-> "client", novel_id |-> n,
                      received |-> IF response.code = 200
                                   THEN Received(n) \o response.new_chapters
                                   ELSE Received(n)]
        /\ UNCHANGED <<novels, chapters, creators, retriers, runners, trouble>>

(* ---------------------------- direct calls ---------------------------- *)

\* A Novelist with `count` chapters after `written` successful
\* write_next_chapter calls, the last of which returned `text`.
Written(count, written, text) ==
    [next_chapter_num |-> written + 1, chapter_count |-> count,
     previous_chapter_content |-> IF written = 0 THEN "" ELSE text,
     total_text_length |-> written * Len(text)]

Novelists ==
    {Written(count, written, text) :
        count \in 1 .. MaxLenUnits, written \in 0 .. MaxLenUnits, text \in Texts}

\* The store and the threads are left alone by a direct call.
ServiceUntouched ==
    UNCHANGED <<novels, chapters, creators, retriers, runners, trouble>>

\* retry_failed_chapter called on a Novelist, with any chapter number (in
\* or out of range), with or without previous content, the provider
\* returning a text or raising.
DirectRetryFailedChapter ==
    \E novelist \in Novelists, number \in 0 .. MaxLenUnits + 1,
       previous \in Texts \cup {NoneValue},
       generated \in Texts \cup {GenerationError} :
        /\ novelist.next_chapter_num <= novelist.chapter_count + 1
        /\ direct' = [op |-> "retry_failed_chapter",
                      novelist |-> novelist,
                      chapter_number |-> number,
                      previous_content |-> previous,
                      result |-> retry_failed_chapter(novelist, number,
                                                      previous, generated)]
        /\ ServiceUntouched

\* The texts generate_chapter returns to a direct call: of different lengths.
DirectTexts == Texts \cup {"a longer chapter text"}

\* write_next_chapter called on a Novelist, the provider returning a text or
\* raising.
DirectWriteNextChapter ==
    \E novelist \in Novelists, generated \in DirectTexts \cup {GenerationError} :
        /\ novelist.next_chapter_num <= novelist.chapter_count + 1
        /\ direct' = [op |-> "write_next_chapter",
                      novelist |-> novelist,
                      generated |-> generated,
                      result |-> write_next_chapter_call(novelist, generated)]
        /\ ServiceUntouched

\* The text lengths calc_chapter_count is called with: the multiples of
\* 2000 up to 2000 * (MaxLenUnits + 1), the lengths one below and one above
\* each, and the lengths halfway between.
DirectLengths ==
    {CharsPerChapter * u + d :
        u \in 0 .. MaxLenUnits + 1, d \in {-1, 0, 1, CharsPerChapter \div 2}}

\* calc_chapter_count called on a Novelist.
DirectCalcChapterCount ==
    \E novelist \in Novelists, text_length \in DirectLengths :
        /\ novelist.next_chapter_num <= novelist.chapter_count + 1
        /\ direct' = [op |-> "calc_chapter_count",
                      novelist |-> novelist,
                      text_length |-> text_length,
                      result |-> [count |-> calc_chapter_count(text_length),
                                  novelist |-> novelist]]
        /\ ServiceUntouched

(* ---------------------------- retry_on_error -------------------------- *)

\* gemini_retry.py RETRIABLE_ERRORS and NON_RETRIABLE_ERRORS, and what else
\* a wrapped function can raise: a plain GeminiAPIError, any other
\* Exception. No class is a subclass of another of them but GeminiAPIError's.
RETRIABLE_ERRORS ==
    {"NetworkError", "TimeoutError", "RateLimitError", "EmptyResponseError",
     "UnexpectedFinishReasonError"}
NON_RETRIABLE_ERRORS ==
    {"SafetyFilterError", "MaxTokensError", "RecitationError",
     "InvalidJSONError", "APIAuthenticationError"}
Errors == RETRIABLE_ERRORS \cup NON_RETRIABLE_ERRORS \cup {"GeminiAPIError", "Exception"}

\* Delays are in milliseconds and backoff factors in tenths, which keeps
\* every delay of the presets a whole number (2.0 s * 1.8^3 = 11664 ms).
\* The largest max_delay, in seconds, retry_on_error is given directly.
MaxDelaySeconds == 3

\* The preset decorators.
retry_for_novel_generation ==
    [name |-> "novel_generation", max_retries |-> 3, initial_delay |-> 2000,
     backoff_factor |-> 20, max_delay |-> 60000,
     retriable_errors |-> RETRIABLE_ERRORS]

retry_for_quick_request ==
    [name |-> "quick_request", max_retries |-> 2, initial_delay |-> 1000,
     backoff_factor |-> 15, max_delay |-> 10000,
     retriable_errors |-> RETRIABLE_ERRORS]

\* retry_for_json_generation without InvalidJSONError in its retriable set.
retry_for_json_generation_plain ==
    [name |-> "json_generation", max_retries |-> 4, initial_delay |-> 2000,
     backoff_factor |-> 18, max_delay |-> 45000,
     retriable_errors |-> RETRIABLE_ERRORS]

retry_for_json_generation ==
    [name |-> "json_generation", max_retries |-> 4, initial_delay |-> 2000,
     backoff_factor |-> 18, max_delay |-> 45000,
     retriable_errors |-> RETRIABLE_ERRORS \cup {"InvalidJSONError"}]

Presets ==
    {retry_for_novel_generation, retry_for_quick_request,
     retry_for_json_generation}

\* retry_on_error used as a decorator itself, with its defaults but for the
\* max_delay it is given.
retry_on_error(max_delay) ==
    [name |-> "retry_on_error", max_retries |-> 3, initial_delay |-> 2000,
     backoff_factor |-> 20, max_delay |-> max_delay,
     retriable_errors |-> RETRIABLE_ERRORS]

Decorators ==
    Presets \cup {retry_on_error(1000 * seconds) : seconds \in 1 .. MaxDelaySeconds}

\* What one invocation of the wrapped function gives: a value it returns,
\* or an error it raises.
Returned(value) == [raises |-> NoneValue, returns |-> value]
Raised(error) == [raises |-> error, returns |-> NoneValue]
Outcomes == {Returned(text) : text \in Texts} \cup {Raised(error) : error \in Errors}

\* The retry_after of a RateLimitError, in seconds; 0 stands for a hint that
\* is absent (None) or zero, which the wrapper does not tell apart.
RetryAfters == {0, 1, 100}

\* random.random() is in [0, 1): its least, middle and greatest values in
\* hundredths.
Randoms == {0, 50, 99}

\* The wrapper entered: nothing invoked yet.
wrapper_entered(decorator) ==
    [op |-> "retry_on_error", preset |-> decorator.name,
     max_retries |-> decorator.max_retries,
     backoff_factor |-> decorator.backoff_factor,
     max_delay |-> decorator.max_delay,
     retriable_errors |-> decorator.retriable_errors,
     initial_delay |-> decorator.initial_delay,
     pc |-> "attempt", attempt |-> 0, calls |-> 0,
     delay |-> decorator.initial_delay, waits |-> 0, wait_time |-> 0,
     outcome |-> NoneValue,
     last_exception |-> NoneValue, raised |-> NoneValue, result |-> NoneValue]

\* is_retriable catching every GeminiAPIError.
is_retriable_any(w, error) ==
    error \in Errors \ {"Exception"}

\* `except retriable_errors` matches the error.
is_retriable(w, error) ==
    error \in w.retriable_errors

Least(a, b) == IF a <= b THEN a ELSE b

\* The wait before the next attempt: the rate limit's retry_after capped by
\* max_delay, or else the current delay capped by max_delay and then
\* multiplied by a jitter of 0.5 + random.random().
wait_time(w, error, retry_after, random) ==
    IF error = "RateLimitError" /\ retry_after # 0
    THEN Least(1000 * retry_after, w.max_delay)
    ELSE (Least(w.delay, w.max_delay) * (50 + random)) \div 100

\* The delay left as it is after a wait on a rate limit's retry_after.
next_delay_unless_hinted(w, error, retry_after) ==
    IF error = "RateLimitError" /\ retry_after # 0 THEN w.delay
    ELSE (w.delay * w.backoff_factor) \div 10

\* `delay *= backoff_factor` after the sleep, whatever the error waited out
\* and whatever the wait was taken from (the factor is in tenths).
next_delay(w, error, retry_after) ==
    (w.delay * w.backoff_factor) \div 10

RECURSIVE Power(_, _)
\* base ** exponent
Power(base, exponent) ==
    IF exponent = 0 THEN 1 ELSE base * Power(base, exponent - 1)

\* calculate_retry_delay(attempt, initial_delay, backoff_factor), the delay
\* in milliseconds and the factor in tenths.
calculate_retry_delay(attempt, initial_delay, backoff_factor) ==
    (initial_delay * Power(backoff_factor, attempt)) \div Power(10, attempt)

\* wrapper_attempt giving up only after one attempt more.
wrapper_attempt_once_more(w, outcome, retry_after, random) ==
    LET called == [w EXCEPT !.calls = @ + 1, !.outcome = outcome.raises] IN
    IF outcome.raises = NoneValue
    THEN [called EXCEPT !.pc = "returned", !.result = outcome.returns]
    ELSE IF is_retriable(w, outcome.raises)
    THEN IF w.attempt > w.max_retries
         THEN [called EXCEPT !.pc = "raised",
                             !.last_exception = outcome.raises,
                             !.raised = outcome.raises]
         ELSE [called EXCEPT !.attempt = @ + 1,
                  !.last_exception = outcome.raises,
                  !.waits = @ + 1,
                  !.wait_time = wait_time(w, outcome.raises, retry_after, random),
                  !.delay = next_delay(w, outcome.raises, retry_after)]
    ELSE [called EXCEPT !.pc = "raised", !.raised = outcome.raises]

\* One pass of the wrapper's loop `for attempt in range(max_retries + 1)`:
\* the function is invoked; its result is returned; a retriable error is
\* re-raised on the last attempt and otherwise waited out, the delay
\* growing by backoff_factor, before the next pass; any other error is
\* re-raised at once.
wrapper_attempt(w, outcome, retry_after, random) ==
    LET called == [w EXCEPT !.calls = @ + 1, !.outcome = outcome.raises] IN
    IF outcome.raises = NoneValue
    THEN [called EXCEPT !.pc = "returned", !.result = outcome.returns]
    ELSE IF is_retriable(w, outcome.raises)
    THEN IF w.attempt >= w.max_retries
         THEN [called EXCEPT !.pc = "raised",
                             !.last_exception = outcome.raises,
                             !.raised = outcome.raises]
         ELSE [called EXCEPT !.attempt = @ + 1,
                  !.last_exception = outcome.raises,
                  !.waits = @ + 1,
                  !.wait_time = wait_time(w, outcome.raises, retry_after, random),
                  !.delay = next_delay(w, outcome.raises, retry_after)]
    ELSE [called EXCEPT !.pc = "raised", !.raised = outcome.raises]

\* A wrapped function is being called.
InWrapper == direct.op = "retry_on_error" /\ direct.pc = "attempt"

\* A decorated function is called.
DirectWrapperCall ==
    \E decorator \in Decorators :
        /\ ~InWrapper
        /\ ~(direct.op = "prepare_novel" /\ direct.pc = "generate_init")
        /\ direct' = wrapper_entered(decorator)
        /\ ServiceUntouched

\* The wrapper invokes the function, which returns or raises.
DirectWrapperAttempt ==
    \E outcome \in Outcomes, retry_after \in RetryAfters, random \in Randoms :
        /\ InWrapper
        /\ direct' = wrapper_attempt(direct, outcome, retry_after, random)
        /\ ServiceUntouched

(* ------------------------- gemini_validator ---------------------------- *)

\* The longest list of characters and of chapter plots in a payload, and
\* the largest expected chapter count.
MaxItems == 2

\* The longest text extract_json_from_text is given.
MaxTextLen == 4

\* A JSON value as the validator sees it: absent from its object
\* ("missing"), a string ("str"), a list ("list", with its items), or
\* anything else ("other": a number, null, an object, and for a key that
\* wants a list also a string).
Scalar(kind) == [kind |-> kind, items |-> <<>>]
ListOf(items) == [kind |-> "list", items |-> items]
Kinds == {"missing", "str", "other"}

\* The items of a list: an object with its fields, or anything else.
NotAnObject == [kind |-> "other", fields |-> <<>>]
CharacterItems ==
    {NotAnObject} \cup
    {[kind |-> "object", fields |-> [name |-> Scalar(a), role |-> Scalar(b)]] :
        a \in Kinds, b \in Kinds}
ChapterPlotItems ==
    {NotAnObject} \cup
    {[kind |-> "object", fields |-> [plot |-> Scalar(a)]] : a \in Kinds}
ListsOf(Items) ==
    {Scalar("missing"), Scalar("other")} \cup
    {ListOf(items) : items \in UNION {[1 .. n -> Items] : n \in 0 .. MaxItems}}

\* The texts of the provider as sequences of characters: braces, line
\* breaks and other characters, in any arrangement.
ProviderTexts ==
    UNION {[1 .. n -> {"{", "}", "\n", "a"}] : n \in 0 .. MaxTextLen}

\* text.replace("\n", "")
RECURSIVE without_newlines(_)
without_newlines(text) ==
    IF text = <<>> THEN <<>>
    ELSE (IF Head(text) = "\n" THEN <<>> ELSE <<Head(text)>>)
         \o without_newlines(Tail(text))

\* text.find(c) from position i on: the first position holding c, counted
\* from 1, 0 where Python gives -1.
RECURSIVE find(_, _, _)
find(text, c, i) ==
    IF i > Len(text) THEN 0
    ELSE IF text[i] = c THEN i
    ELSE find(text, c, i + 1)

RECURSIVE rfind(_, _, _)
\* The first position holding c in the place of the last.
rfind_first(text, c, i) == find(text, c, 1)

\* text.rfind(c) from position i down: the last position holding c, counted
\* from 1, 0 where Python gives -1.
rfind(text, c, i) ==
    IF i < 1 THEN 0
    ELSE IF text[i] = c THEN i
    ELSE rfind(text, c, i - 1)

\* extract_json_from_text on a text given character by character: the
\* exception raised ("" when it returns) and the text returned.
extract_json_from_chars(chars) ==
    LET text == without_newlines(chars)
        json_start == find(text, "{", 1)
        json_end == rfind(text, "}", Len(text))
    IN  IF json_start = 0
        THEN [raised |-> "InvalidJSONError", json_text |-> <<>>]
        ELSE IF json_end = 0 \/ json_end < json_start
        THEN [raised |-> "InvalidJSONError", json_text |-> <<>>]
        ELSE [raised |-> "", json_text |-> SubSeq(text, json_start, json_end)]

\* The texts validate_novel_init_json is given, by what is found between
\* the first "{" and the last "}": nothing ("no_braces": a brace is
\* lacking), a text json.loads refuses ("unparseable"), or a JSON object
\* with its fields. A text that begins with "{" and parses is an object.
Payloads ==
    {[kind |-> k, fields |-> <<>>] : k \in {"no_braces", "unparseable"}} \cup
    {[kind |-> "object",
      fields |-> [title |-> Scalar(t), summary |-> Scalar(u), plot |-> Scalar(v),
                  characters |-> c, chapter_plots |-> p]] :
        t \in Kinds, u \in Kinds, v \in Kinds,
        c \in ListsOf(CharacterItems), p \in ListsOf(ChapterPlotItems)}

\* NOVEL_INIT_SCHEMA: the keys in their order, all of them required.
Rule(key, type, item_schema) ==
    [key |-> key, type |-> type, item_schema |-> item_schema]
NOVEL_INIT_SCHEMA ==
    <<Rule("title", "str", <<>>), Rule("summary", "str", <<>>),
      Rule("plot", "str", <<>>),
      Rule("characters", "list",
           <<Rule("name", "str", <<>>), Rule("role", "str", <<>>)>>),
      Rule("chapter_plots", "list", <<Rule("plot", "str", <<>>)>>)>>

RECURSIVE validate_schema(_, _, _, _)
RECURSIVE validate_items(_, _, _)

\* _validate_schema's loop over the items of a list, from item j on: an
\* item that is not an object, or does not fit item_schema, raises.
validate_items(items, item_schema, j) ==
    IF j > Len(items) THEN "ok"
    ELSE IF items[j].kind # "object" THEN "InvalidJSONError"
    ELSE IF validate_schema(items[j].fields, item_schema, 1, {}) # "ok"
    THEN "InvalidJSONError"
    ELSE validate_items(items, item_schema, j + 1)

\* _validate_schema's loop over the keys of the schema, from key k on: a
\* missing key is noted and the loop goes on, a value of the wrong type
\* raises at once, a list has its items validated; after the loop the noted
\* missing keys raise.
validate_schema(data, schema, k, missing_keys) ==
    IF k > Len(schema)
    THEN IF missing_keys # {} THEN "InvalidJSONError" ELSE "ok"
    ELSE LET rules == schema[k]
             value == data[rules.key]
         IN  IF value.kind = "missing"
             THEN validate_schema(data, schema, k + 1,
                                  missing_keys \cup {rules.key})
             ELSE IF value.kind # rules.type THEN "InvalidJSONError"
             ELSE IF rules.type = "list"
                     /\ validate_items(value.items, rules.item_schema, 1) # "ok"
             THEN "InvalidJSONError"
             ELSE validate_schema(data, schema, k + 1, missing_keys)

\* extract_json_from_text: raises when a brace is lacking.
extract_json_from_text(payload) ==
    IF payload.kind = "no_braces" THEN "InvalidJSONError" ELSE "ok"

\* validate_json_response: json.loads, then the schema.
validate_json_response(payload) ==
    IF payload.kind = "unparseable" THEN "InvalidJSONError"
    ELSE IF payload.kind # "object" THEN "InvalidJSONError"
    ELSE validate_schema(payload.fields, NOVEL_INIT_SCHEMA, 1, {})

\* The chapter count is not compared.
chapter_count_matches_always(data, expected_chapter_count) ==
    TRUE

\* len(data.get("chapter_plots", [])) == expected_chapter_count.
chapter_count_matches(data, expected_chapter_count) ==
    Len(data.chapter_plots.items) = expected_chapter_count

\* The characters are not looked at.
has_characters_unchecked(data) ==
    TRUE

\* data.get("characters") is there and not empty.
has_characters(data) ==
    Len(data.characters.items) # 0

\* validate_novel_init_json: the result is "ok", the payload's object being
\* returned, or the error raised.
validate_novel_init_json(payload, expected_chapter_count) ==
    IF extract_json_from_text(payload) # "ok" THEN "InvalidJSONError"
    ELSE IF validate_json_response(payload) # "ok" THEN "InvalidJSONError"
    ELSE IF ~chapter_count_matches(payload.fields, expected_chapter_count)
    THEN "InvalidJSONError"
    ELSE IF ~has_characters(payload.fields) THEN "InvalidJSONError"
    ELSE "ok"

\* The finish reason of a candidate: no such attribute ("absent"), the
\* reasons gemini_exceptions.py names, and two it does not name.
FinishReasons ==
    {"absent", "STOP", "MAX_TOKENS", "SAFETY", "RECITATION", "OTHER",
     "BLOCKLIST", "PROHIBITED_CONTENT", "FINISH_REASON_UNSPECIFIED",
     "LANGUAGE"}

\* The responses validate_response is given: with candidates or without
\* (the attribute lacking, or the list empty), the first candidate with its
\* finish reason, and with no content, content without parts, or parts.
Responses ==
    [candidates : {"none", "some"}, finish_reason : FinishReasons,
     content : {"missing", "no_parts", "parts"}]

\* _handle_finish_reason_error without the branch for BLOCKLIST and
\* PROHIBITED_CONTENT.
handle_finish_reason_error_no_blocklist(finish_reason) ==
    IF finish_reason = "SAFETY" THEN "SafetyFilterError"
    ELSE IF finish_reason = "MAX_TOKENS" THEN "MaxTokensError"
    ELSE IF finish_reason = "RECITATION" THEN "RecitationError"
    ELSE IF finish_reason = "OTHER" \/ finish_reason # NoneValue
    THEN "UnexpectedFinishReasonError"
    ELSE "EmptyResponseError"

\* _handle_finish_reason_error: the error raised for a finish reason, None
\* when the candidate has none; the last branch but one takes every reason
\* that is not None, STOP among them.
handle_finish_reason_error(finish_reason) ==
    IF finish_reason = "SAFETY" THEN "SafetyFilterError"
    ELSE IF finish_reason = "MAX_TOKENS" THEN "MaxTokensError"
    ELSE IF finish_reason = "RECITATION" THEN "RecitationError"
    ELSE IF finish_reason \in {"BLOCKLIST", "PROHIBITED_CONTENT"}
    THEN "SafetyFilterError"
    ELSE IF finish_reason = "OTHER" \/ finish_reason # NoneValue
    THEN "UnexpectedFinishReasonError"
    ELSE "EmptyResponseError"

\* validate_response: "ok" when it returns, or the error it raises.
validate_response(response) ==
    IF response.candidates = "none" THEN "EmptyResponseError"
    ELSE LET finish_reason ==
                 IF response.finish_reason = "absent" THEN NoneValue
                 ELSE response.finish_reason
         IN  IF response.content = "missing"
             THEN handle_finish_reason_error(finish_reason)
             ELSE IF response.content = "no_parts"
             THEN handle_finish_reason_error(finish_reason)
             ELSE IF finish_reason # NoneValue /\ finish_reason # "STOP"
             THEN handle_finish_reason_error(finish_reason)
             ELSE "ok"

\* validate_novel_init_json is about to be called on a payload, or
\* validate_response on a response.
InitValidate ==
    /\ novels = [n \in NovelIds |-> NoNovel]
    /\ chapters = [n \in NovelIds |-> <<>>]
    /\ creators = [n \in NovelIds |-> IdleCreator]
    /\ retriers = [q \in RetryIds |-> IdleRetrier]
    /\ runners = [r \in RunnerIds |-> FreeRunner]
    /\ trouble = {}
    /\ \/ \E payload \in Payloads, expected \in 1 .. MaxItems :
             direct = [op |-> "payload", payload |-> payload,
                       expected_chapter_count |-> expected]
       \/ \E response \in Responses :
             direct = [op |-> "response", response |-> response]
       \/ \E text \in ProviderTexts :
             direct = [op |-> "text", text |-> text]

\* validate_novel_init_json is called.
ValidateNovelInitJson ==
    /\ direct.op = "payload"
    /\ direct' = [op |-> "validate_novel_init_json",
                  payload |-> direct.payload,
                  expected_chapter_count |-> direct.expected_chapter_count,
                  result |-> validate_novel_init_json(
                                 direct.payload, direct.expected_chapter_count)]
    /\ ServiceUntouched

\* validate_response is called.
ValidateResponse ==
    /\ direct.op = "response"
    /\ direct' = [op |-> "validate_response", response |-> direct.response,
                  result |-> validate_response(direct.response)]
    /\ ServiceUntouched

\* extract_json_from_text is called.
ExtractJsonFromText ==
    /\ direct.op = "text"
    /\ direct' = [op |-> "extract_json_from_text", text |-> direct.text,
                  result |-> extract_json_from_chars(direct.text)]
    /\ ServiceUntouched

(* ---------------------------- prepare_novel --------------------------- *)

\* A plan the provider answers generate_init with: right in every field,
\* with `count` chapter plots.
PlanOf(count) ==
    [kind |-> "object",
     fields |-> [title |-> Scalar("str"), summary |-> Scalar("str"),
                 plot |-> Scalar("str"),
                 characters |->
                     ListOf(<<[kind |-> "object",
                               fields |-> [name |-> Scalar("str"),
                                           role |-> Scalar("str")]]>>),
                 chapter_plots |->
                     ListOf([i \in 1 .. count |->
                                [kind |-> "object",
                                 fields |-> [plot |-> Scalar("str")]]])]]

\* What the provider answers one invocation of generate_init with: a plan
\* of some number of chapter plots, or -1 for no plan, an error being
\* raised in its place.
NoPlan == -1
PlanResponses == {NoPlan} \cup (0 .. MaxLenUnits + 1)

\* The body of generate_init: the error of the provider or of the response
\* validation is raised; a plan is returned if validate_novel_init_json
\* lets it through and InvalidJSONError is raised if not.
generate_init(chapter_count, response, error) ==
    IF response = NoPlan THEN Raised(error)
    ELSE IF validate_novel_init_json(PlanOf(response), chapter_count) = "ok"
    THEN Returned(PlanOf(response))
    ELSE Raised("InvalidJSONError")

\* NovelInit.post has come to prepare_novel.
InPrepareNovel == direct.op = "prepare_novel" /\ direct.pc = "generate_init"

\* NovelInit.post calls prepare_novel, which computes the chapter count and
\* calls generate_init under its decorator.
DirectPrepareNovel ==
    \E text_length \in Lengths :
        /\ ~InWrapper
        /\ ~InPrepareNovel
        /\ direct' = [op |-> "prepare_novel", pc |-> "generate_init",
                      text_length |-> text_length,
                      chapter_count |-> calc_chapter_count(text_length),
                      wrapper |-> wrapper_entered(retry_for_json_generation),
                      response |-> NoPlan, mismatches |-> 0,
                      chapter_plots |-> NoPlan,
                      raised |-> NoneValue, code |-> 0]
        /\ ServiceUntouched

\* prepare_novel once generate_init has returned under its decorator: the
\* plan is kept and its chapter plots counted against chapter_count.
prepare_novel_checked(call, wrapper) ==
    LET count == Len(wrapper.result.fields.chapter_plots.items) IN
    IF count # call.chapter_count
    THEN [call EXCEPT !.wrapper = wrapper, !.pc = "failed",
                      !.chapter_plots = count,
                      !.raised = "ValueError", !.code = 500]
    ELSE [call EXCEPT !.wrapper = wrapper, !.pc = "prepared",
                      !.chapter_plots = count]

\* One invocation of generate_init by its decorator, and what follows when
\* the decorator returns or raises: prepare_novel checks the plan, or the
\* error passes through prepare_novel to NovelInit.post, which answers 500.
DirectGenerateInit ==
    \E response \in PlanResponses, error \in Errors,
       retry_after \in RetryAfters, random \in Randoms :
        /\ InPrepareNovel
        /\ LET call == [direct EXCEPT
                           !.response = response,
                           !.mismatches =
                               IF response # NoPlan /\ response # direct.chapter_count
                               THEN @ + 1 ELSE @]
               wrapper == wrapper_attempt(
                              direct.wrapper,
                              generate_init(direct.chapter_count, response, error),
                              retry_after, random)
           IN  direct' =
                   IF wrapper.pc = "returned"
                   THEN prepare_novel_checked(call, wrapper)
                   ELSE IF wrapper.pc = "raised"
                   THEN [call EXCEPT !.wrapper = wrapper, !.pc = "failed",
                                     !.raised = wrapper.raised, !.code = 500]
                   ELSE [call EXCEPT !.wrapper = wrapper]
        /\ ServiceUntouched

(* ------------------------- json and init_data -------------------------- *)

\* A Python text is a sequence of characters.  The values the json module
\* handles here: a text, a list, a dict with its keys in insertion order.
JStr(chars) == [type |-> "str", chars |-> chars, keys |-> <<>>, items |-> <<>>]

JList(items) == [type |-> "list", chars |-> <<>>, keys |-> <<>>, items |-> items]

JDict(keys, items) == [type |-> "dict", chars |-> <<>>, keys |-> keys, items |-> items]

\* The character at position p of a text, or a mark past its end.
At(text, p) == IF p >= 1 /\ p <= Len(text) THEN text[p] ELSE "<end>"

\* json.dumps writing a character of a text as it is.
dumps_char_raw(c) == <<c>>

\* json.dumps escapes the quote, the backslash and the line break inside a
\* text (ensure_ascii=False leaves every other character as it is).
dumps_char(c) ==
    IF c = "\"" THEN <<"\\", "\"">>
    ELSE IF c = "\\" THEN <<"\\", "\\">>
    ELSE IF c = "\n" THEN <<"\\", "n">>
    ELSE <<c>>

RECURSIVE dumps_chars(_, _)
dumps_chars(chars, i) ==
    IF i > Len(chars) THEN <<>>
    ELSE dumps_char(chars[i]) \o dumps_chars(chars, i + 1)

dumps_string(chars) == <<"\"">> \o dumps_chars(chars, 1) \o <<"\"">>

\* The line break and the indentation json.dumps(indent=2) writes in front
\* of an item nested `level` deep.
newline_indent(level) == <<"\n">> \o [i \in 1 .. 2 * level |-> " "]

RECURSIVE dumps(_, _)
RECURSIVE dumps_items(_, _, _)
\* The items of a list or the pairs of a dict from the i-th on.
dumps_items(value, i, level) ==
    IF i > Len(value.items) THEN <<>>
    ELSE (IF i > 1 THEN <<",">> ELSE <<>>)
         \o newline_indent(level)
         \o (IF value.type = "dict"
             THEN dumps_string(value.keys[i]) \o <<":", " ">>
             ELSE <<>>)
         \o dumps(value.items[i], level)
         \o dumps_items(value, i + 1, level)

dumps(value, level) ==
    IF value.type = "str" THEN dumps_string(value.chars)
    ELSE LET open == IF value.type = "dict" THEN "{" ELSE "["
             close == IF value.type = "dict" THEN "}" ELSE "]"
         IN  IF Len(value.items) = 0 THEN <<open, close>>
             ELSE <<open>> \o dumps_items(value, 1, level + 1)
                  \o newline_indent(level) \o <<close>>

\* json.dumps(value, ensure_ascii=False, indent=2)
json_dumps(value) == dumps(value, 0)

\* What a parsing step gives: whether it succeeded, the value read and the
\* position after it.
Parsed(value, pos) == [ok |-> TRUE, value |-> value, pos |-> pos]

ParseError == [ok |-> FALSE, value |-> JStr(<<>>), pos |-> 0]

RECURSIVE skip_whitespace(_, _)
skip_whitespace(text, p) ==
    IF At(text, p) \in {" ", "\n"} THEN skip_whitespace(text, p + 1) ELSE p

\* The characters of a text from position p (after the opening quote) to the
\* closing quote; a line break inside a text is refused.
RECURSIVE parse_chars(_, _, _)
parse_chars(text, p, chars) ==
    LET c == At(text, p)
        d == At(text, p + 1)
    IN  IF c = "<end>" \/ c = "\n" THEN ParseError
        ELSE IF c = "\"" THEN Parsed(JStr(chars), p + 1)
        ELSE IF c = "\\"
        THEN IF d = "n" THEN parse_chars(text, p + 2, Append(chars, "\n"))
             ELSE IF d \in {"\"", "\\"} THEN parse_chars(text, p + 2, Append(chars, d))
             ELSE ParseError
        ELSE parse_chars(text, p + 1, Append(chars, c))

RECURSIVE parse_value(_, _)
RECURSIVE parse_items(_, _, _, _, _)
\* The items of a list (close = "]") or the pairs of a dict (close = "}")
\* from position p on, after the ones already read.  A key read a second
\* time takes the place of the first.
parse_items(text, p, close, keys, items) ==
    LET at_key == skip_whitespace(text, p)
        key == IF close = "}" /\ At(text, at_key) = "\""
               THEN parse_chars(text, at_key + 1, <<>>)
               ELSE ParseError
        colon == IF key.ok THEN skip_whitespace(text, key.pos) ELSE 0
        item == IF close = "]" THEN parse_value(text, p)
                ELSE IF key.ok /\ At(text, colon) = ":"
                THEN parse_value(text, colon + 1)
                ELSE ParseError
        after == IF item.ok THEN skip_whitespace(text, item.pos) ELSE 0
        seen == IF close = "}" /\ key.ok
                THEN {i \in 1 .. Len(keys) : keys[i] = key.value.chars}
                ELSE {}
        keys_now == IF close = "]" \/ seen # {} THEN keys
                    ELSE Append(keys, key.value.chars)
        items_now == IF seen # {}
                     THEN [i \in 1 .. Len(items) |->
                              IF i \in seen THEN item.value ELSE items[i]]
                     ELSE Append(items, item.value)
    IN  IF ~item.ok THEN ParseError
        ELSE IF At(text, after) = ","
        THEN parse_items(text, after + 1, close, keys_now, items_now)
        ELSE IF At(text, after) = close
        THEN Parsed(IF close = "}" THEN JDict(keys_now, items_now)
                    ELSE JList(items_now), after + 1)
        ELSE ParseError

parse_value(text, p) ==
    LET start == skip_whitespace(text, p)
        c == At(text, start)
        close == IF c = "{" THEN "}" ELSE "]"
        first == skip_whitespace(text, start + 1)
    IN  IF c = "\"" THEN parse_chars(text, start + 1, <<>>)
        ELSE IF c \in {"{", "["}
        THEN IF At(text, first) = close
             THEN Parsed(IF c = "{" THEN JDict(<<>>, <<>>) ELSE JList(<<>>),
                         first + 1)
             ELSE parse_items(text, start + 1, close, <<>>, <<>>)
        ELSE ParseError

\* json.loads(text): the value the whole text spells, or a JSONDecodeError.
json_loads(text) ==
    LET parsed == parse_value(text, 1)
    IN  IF parsed.ok /\ skip_whitespace(text, parsed.pos) = Len(text) + 1
        THEN parsed
        ELSE ParseError

\* The keys of a plan as texts: those of NOVEL_INIT_SCHEMA and one the
\* schema does not name.
Key ==
    [plot |-> <<"p", "l", "o", "t">>,
     chapter_plots |->
         <<"c", "h", "a", "p", "t", "e", "r", "_", "p", "l", "o", "t", "s">>,
     title |-> <<"t", "i", "t", "l", "e">>,
     summary |-> <<"s", "u", "m", "m", "a", "r", "y">>,
     characters |-> <<"c", "h", "a", "r", "a", "c", "t", "e", "r", "s">>,
     name |-> <<"n", "a", "m", "e">>, role |-> <<"r", "o", "l", "e">>,
     theme |-> <<"t", "h", "e", "m", "e">>]

\* `key in generated`
has_key(generated, key) == \E i \in 1 .. Len(generated.keys) : generated.keys[i] = key

\* generated.get(key, default)
dict_get(generated, key, default) ==
    IF has_key(generated, key)
    THEN generated.items[CHOOSE i \in 1 .. Len(generated.keys) : generated.keys[i] = key]
    ELSE default

RECURSIVE without_plan_keys(_, _)
\* {k: v for k, v in generated.items() if k not in ["plot", "chapter_plots"]}
without_plan_keys(generated, i) ==
    IF i > Len(generated.keys) THEN JDict(<<>>, <<>>)
    ELSE LET rest == without_plan_keys(generated, i + 1)
         IN  IF generated.keys[i] \in {Key.plot, Key.chapter_plots} THEN rest
             ELSE JDict(<<generated.keys[i]>> \o rest.keys,
                        <<generated.items[i]>> \o rest.items)

\* A Novelist with the cursor fields of `novelist` and the plan fields as
\* Novelist.__init__ leaves them.
Planless(novelist) ==
    [next_chapter_num |-> novelist.next_chapter_num,
     chapter_count |-> novelist.chapter_count,
     previous_chapter_content |-> novelist.previous_chapter_content,
     total_text_length |-> novelist.total_text_length,
     init_data |-> <<>>, plot |-> JStr(<<>>), chapter_plots |-> JList(<<>>),
     other_novel_data |-> JDict(<<>>, <<>>)]

\* Novelist.prepare_novel from the point where generate_init has returned
\* the dict `generated` for chapter_count chapters: the exception raised
\* ("" when it returns), the calls of the provider and the Novelist afterwards.
prepare_novel(novelist, chapter_count, generated) ==
    LET chapter_plots == dict_get(generated, Key.chapter_plots, JList(<<>>))
        prepared ==
            [novelist EXCEPT
                !.chapter_count = chapter_count,
                !.init_data = json_dumps(generated),
                !.plot = dict_get(generated, Key.plot, JStr(<<>>)),
                !.chapter_plots = chapter_plots,
                !.other_novel_data = without_plan_keys(generated, 1)]
    IN  [raised |-> IF Len(chapter_plots.items) # chapter_count
                    THEN "ValueError" ELSE "",
         provider_calls |-> 1, novelist |-> prepared]

\* Novelist.load_from_init_data(init_data_json) on any Novelist: the
\* exception raised ("" when it returns), the calls of the provider and the
\* Novelist afterwards.
restore_from_init_data(novelist, init_data_json) ==
    LET parsed == json_loads(init_data_json)
        generated == parsed.value
        chapter_plots == dict_get(generated, Key.chapter_plots, JList(<<>>))
        restored ==
            [novelist EXCEPT
                !.init_data = init_data_json,
                !.plot = dict_get(generated, Key.plot, JStr(<<>>)),
                !.chapter_plots = chapter_plots,
                !.other_novel_data = without_plan_keys(generated, 1),
                !.chapter_count = Len(chapter_plots.items)]
    IN  IF ~parsed.ok
        THEN [raised |-> "JSONDecodeError", provider_calls |-> 0,
              novelist |-> novelist]
        ELSE IF generated.type # "dict" \/ ~has_key(generated, Key.plot)
                \/ ~has_key(generated, Key.chapter_plots)
        THEN [raised |-> "KeyError", provider_calls |-> 0, novelist |-> novelist]
        ELSE [raised |-> IF Len(chapter_plots.items) <= 0 THEN "ValueError" ELSE "",
              provider_calls |-> 0, novelist |-> restored]

\* The texts a plan is made of: plain, with a quote, with a backslash, with
\* a line break, with the characters json itself is written in.
PlanTexts ==
    {<<"a">>, <<"a", "\"", "b">>, <<"\\", "n">>, <<"a", "\n">>, <<"}", ",", "{">>}

\* The plans generate_init returns for chapter_count chapters: validated
\* against NOVEL_INIT_SCHEMA and the chapter count, with or without a field
\* the schema does not name.
ChapterPlotsOf(count) ==
    {JList([i \in 1 .. count |-> JDict(<<Key.plot>>, <<JStr(texts[i])>>)]) :
        texts \in [1 .. count -> PlanTexts]}

GeneratedPlans(count) ==
    {JDict(<<Key.title, Key.summary, Key.plot, Key.characters, Key.chapter_plots>>
               \o extra.keys,
           <<JStr(<<"T">>), JStr(<<"s">>), JStr(plot),
             JList(<<JDict(<<Key.name, Key.role>>, <<JStr(name), JStr(<<"r">>)>>)>>),
             chapter_plots>> \o extra.items) :
        plot \in PlanTexts, name \in {<<"n">>, <<"\"">>},
        chapter_plots \in ChapterPlotsOf(count),
        extra \in {JDict(<<>>, <<>>), JDict(<<Key.theme>>, <<JList(<<>>)>>)}}

\* A Novelist prepares a plan; the init_data it leaves is what the creation
\* path persists.  `resumed` is the Novelist that will load it.
InitResume ==
    /\ novels = [n \in NovelIds |-> NoNovel]
    /\ chapters = [n \in NovelIds |-> <<>>]
    /\ creators = [n \in NovelIds |-> IdleCreator]
    /\ retriers = [q \in RetryIds |-> IdleRetrier]
    /\ runners = [r \in RunnerIds |-> FreeRunner]
    /\ trouble = {}
    /\ \E count \in 1 .. MaxItems :
       \E generated \in GeneratedPlans(count) :
       \E novelist \in Novelists :
          direct = [op |-> "generate_init", chapter_count |-> count,
                    generated |-> generated,
                    resumed |-> Planless(novelist)]

\* prepare_novel after generate_init has returned.
ResumePrepareNovel ==
    /\ direct.op = "generate_init"
    /\ direct' = [op |-> "prepare_novel", chapter_count |-> direct.chapter_count,
                  generated |-> direct.generated, resumed |-> direct.resumed,
                  prepared |-> prepare_novel(Planless(NewNovelist),
                                             direct.chapter_count, direct.generated)]
    /\ ServiceUntouched

\* load_from_init_data on the init_data a successful prepare_novel left.
ResumeLoadFromInitData ==
    /\ direct.op = "prepare_novel"
    /\ direct.prepared.raised = ""
    /\ direct' = [op |-> "load_from_init_data",
                  chapter_count |-> direct.chapter_count,
                  generated |-> direct.generated, resumed |-> direct.resumed,
                  prepared |-> direct.prepared,
                  loaded |-> restore_from_init_data(direct.resumed,
                                                    direct.prepared.novelist.init_data)]
    /\ ServiceUntouched

(* --------------------------- specifications ---------------------------- *)

\* The requests and the runner.
Serve ==
    \/ \E n \in NovelIds, req \in InitRequests : InitPost(n, req)
    \/ \E n \in NovelIds : InitSaveChapters(n)
    \/ \E n \in NovelIds : InitMarkFirst(n)
    \/ \E n \in NovelIds, text \in Texts : InitFirstGenerated(n, text)
    \/ \E n \in NovelIds : InitFirstFailed(n)
    \/ \E n \in NovelIds : InitLaunch(n)
    \/ \E r \in RunnerIds : RunnerStart(r)
    \/ \E r \in RunnerIds : RunnerMarkChapter(r)
    \/ \E r \in RunnerIds, text \in Texts : RunnerGenerated(r, text)
    \/ \E r \in RunnerIds : RunnerGenerationFailed(r)
    \/ \E r \in RunnerIds : RunnerComplete(r)
    \/ \E r \in RunnerIds : RunnerCriticalError(r)
    \/ \E r \in RunnerIds : RunnerRecordingFailed(r)
    \/ \E q \in RetryIds, n \in NovelIds, req \in RetryRequests : RetryPost(q, n, req)

\* The steps of a retry request after it was accepted.
Resume ==
    \/ \E q \in RetryIds : RetryMark(q)
    \/ \E q \in RetryIds, text \in Texts : RetryRegenerated(q, text)
    \/ \E q \in RetryIds : RetryRegenerationFailed(q)
    \/ \E q \in RetryIds : RetryLaunch(q)

Next == Serve \/ Resume

\* The service started on a fresh database. No step of Resume is ever enabled
\* in it (RetryNeverAccepted), so its steps are those of Serve.
Spec == Init /\ [][Serve]_vars

\* The same with the steps of Resume kept.
SpecWhole == Init /\ [][Next]_vars

\* The service on a fresh database with the answers to creation requests
\* kept.
ServeAnswered ==
    \/ \E n \in NovelIds, req \in InitRequests : InitPostAnswered(n, req)
    \/ \E n \in NovelIds : InitSaveChapters(n)
    \/ \E n \in NovelIds : InitMarkFirst(n)
    \/ \E n \in NovelIds, text \in Texts : InitFirstGenerated(n, text)
    \/ \E n \in NovelIds : InitFirstFailed(n)
    \/ \E n \in NovelIds : InitLaunch(n)
    \/ \E r \in RunnerIds : RunnerStart(r)
    \/ \E r \in RunnerIds : RunnerMarkChapter(r)
    \/ \E r \in RunnerIds, text \in Texts : RunnerGenerated(r, text)
    \/ \E r \in RunnerIds : RunnerGenerationFailed(r)
    \/ \E r \in RunnerIds : RunnerComplete(r)
    \/ \E r \in RunnerIds : RunnerCriticalError(r)
    \/ \E r \in RunnerIds : RunnerRecordingFailed(r)

SpecAnswered == Init /\ [][ServeAnswered]_vars

\* In a run from a fresh database no retry request gets past its checks.
RetryNeverAccepted == \A q \in RetryIds : retriers[q].pc = "idle"

\* The service started on a database that holds a FAILED Work Item.
SpecStored == InitStored /\ [][Next]_vars

\* A thread that can take a step takes one: the provider answers every call
\* (with a text or an error) and a started thread runs.
RunnerStep(r) ==
    \/ RunnerStart(r)
    \/ RunnerMarkChapter(r)
    \/ \E text \in Texts : RunnerGenerated(r, text)
    \/ RunnerGenerationFailed(r)
    \/ RunnerComplete(r)
    \/ RunnerCriticalError(r)
    \/ RunnerRecordingFailed(r)

RetryStep(q) ==
    \/ RetryMark(q)
    \/ \E text \in Texts : RetryRegenerated(q, text)
    \/ RetryRegenerationFailed(q)
    \/ RetryLaunch(q)

Progress ==
    /\ \A r \in RunnerIds : WF_vars(RunnerStep(r))
    /\ \A q \in RetryIds : WF_vars(RetryStep(q))

FairStored == InitStored /\ [][Next]_vars /\ Progress

\* The service on a fresh database with clients polling the novels.
ServeAndPoll ==
    \/ Serve
    \/ \E n \in NovelIds, current_index \in PollIndexes : Poll(n, current_index)

SpecPoll == Init /\ [][ServeAndPoll]_vars

\* The service started on a database that holds a Work Item in any
\* condition.
SpecAnyStore == InitAnyStore /\ [][Next]_vars

\* Retry requests and runners on the stored Work Item, the provider free to
\* answer a repeated call with another text.
NextRewrite ==
    \/ \E q \in RetryIds, n \in NovelIds, req \in RetryRequests : RetryPost(q, n, req)
    \/ \E q \in RetryIds : RetryMark(q)
    \/ \E q \in RetryIds, text \in Rewrites : RetryRegenerated(q, text)
    \/ \E q \in RetryIds : RetryRegenerationFailed(q)
    \/ \E q \in RetryIds : RetryLaunch(q)
    \/ \E r \in RunnerIds : RunnerStart(r)
    \/ \E r \in RunnerIds : RunnerMarkChapter(r)
    \/ \E r \in RunnerIds, text \in Rewrites : RunnerGenerated(r, text)
    \/ \E r \in RunnerIds : RunnerGenerationFailed(r)
    \/ \E r \in RunnerIds : RunnerComplete(r)
    \/ \E r \in RunnerIds : RunnerCriticalError(r)
    \/ \E r \in RunnerIds : RunnerRecordingFailed(r)

SpecRewrite == InitStored /\ [][NextRewrite]_vars

\* The same with a client following a novel.
NextFollowed ==
    \/ NextRewrite
    \/ \E n \in NovelIds : ClientPoll(n)

SpecFollowed == InitStored /\ [][NextFollowed]_vars

\* Calls made directly on the orchestrator and the helper functions.
NextDirect ==
    \/ DirectRetryFailedChapter
    \/ DirectCalcChapterCount
    \/ DirectWriteNextChapter
    \/ DirectWrapperCall
    \/ DirectWrapperAttempt
    \/ DirectPrepareNovel
    \/ DirectGenerateInit

SpecDirect == Init /\ [][NextDirect]_vars

\* The validators of gemini_validator.py applied to what the provider can
\* answer.
NextValidate ==
    \/ ValidateNovelInitJson
    \/ ValidateResponse
    \/ ExtractJsonFromText

SpecValidate == InitValidate /\ [][NextValidate]_vars

\* A plan prepared by one Novelist and loaded from its init_data by another.
NextResume ==
    \/ ResumePrepareNovel
    \/ ResumeLoadFromInitData

SpecResume == InitResume /\ [][NextResume]_vars

(* ------------------------------ properties ----------------------------- *)

\* The rows of novel n whose chapter_number is above `number`.
RowsAbove(n, number) ==
    {i \in 1 .. Len(chapters[n]) : chapters[n][i].chapter_number > number}

\* Threads working on novel n.
ActiveRunners(n) ==
    {r \in RunnerIds : /\ runners[r].novel_id = n
                       /\ runners[r].pc \in {"start", "loop", "generate"}}

ActiveRetriers(n) ==
    {q \in RetryIds : retriers[q].pc # "idle" /\ retriers[q].novel_id = n}

\* A retry request for novel n was accepted: its handler is at work, or a
\* runner it started exists.
RetryAccepted(n) ==
    \/ ActiveRetriers(n) # {}
    \/ \E r \in RunnerIds :
          runners[r].novel_id = n /\ runners[r].start_from_chapter # 0

\* C1: once the generation of chapter K has failed in a runner, that runner
\* has stopped, and as long as no retry request was accepted for the novel
\* every chapter numbered above K is still PENDING with the placeholder
\* content.
HaltOnFailure ==
    \A r \in RunnerIds :
        (runners[r].failed_at # 0 /\ ~RetryAccepted(runners[r].novel_id)) =>
            /\ runners[r].pc \in {"halted", "crashed"}
            /\ \A i \in RowsAbove(runners[r].novel_id, runners[r].failed_at) :
                  /\ chapters[runners[r].novel_id][i].status = PENDING
                  /\ chapters[runners[r].novel_id][i].content = NO_CONTENT

\* A runner failed on a chapter that is not the last one.
HaltedBeforeLastChapter ==
    \E r \in RunnerIds :
        /\ runners[r].failed_at # 0
        /\ RowsAbove(runners[r].novel_id, runners[r].failed_at) # {}

\* C2: when a runner has stopped on a failed generation, the chapter it was
\* generating is persisted as FAILED and so is the novel.
FailureIsPersisted ==
    \A r \in RunnerIds :
        runners[r].pc = "halted" =>
            /\ chapters[runners[r].novel_id][runners[r].row].status = FAILED
            /\ novels[runners[r].novel_id].status = FAILED

\* Nothing is at work on novel n: its creation request has ended, no runner
\* of it is running and no retry request for it is being handled.
Quiescent(n) ==
    /\ creators[n].pc \in {"idle", "done"}
    /\ ActiveRunners(n) = {}
    /\ ActiveRetriers(n) = {}

\* C3: a Work Item that exists and that no request or runner is working on
\* has a terminal status, COMPLETED or FAILED: it is not left GENERATING.
TerminalWhenQuiescent ==
    \A n \in NovelIds :
        (novels[n].exists /\ Quiescent(n)) =>
            novels[n].status \in {COMPLETED, FAILED}

\* Rows i and j of novel n with i's chapter number below j's.
Before(n, i, j) ==
    chapters[n][i].chapter_number < chapters[n][j].chapter_number

Rows(n) == 1 .. Len(chapters[n])

\* Generations in flight for novel n: the creation request generating
\* chapter 1, runners and retry requests waiting for the provider.
Generating(n) ==
    Cardinality({r \in RunnerIds :
                    runners[r].novel_id = n /\ runners[r].pc = "generate"})
    + Cardinality({q \in RetryIds :
                    retriers[q].novel_id = n /\ retriers[q].pc = "regenerate"})
    + (IF creators[n].pc = "first_generating" THEN 1 ELSE 0)

PlaceholderInvariant ==
    \A n \in NovelIds :
        creators[n].pc \in {"chapters_saved", "first_generating",
                            "first_done", "done"} =>
            /\ Len(chapters[n]) = calc_chapter_count(novels[n].text_length)
            /\ \A i \in Rows(n) : chapters[n][i].chapter_number = i

\* A runner has generated every chapter of a three-chapter novel.
RunnerFinishedThree ==
    \E r \in RunnerIds :
        /\ runners[r].pc = "completed"
        /\ Len(chapters[runners[r].novel_id]) = 3

CreationErrorMarksFailed ==
    \A n \in NovelIds :
        (novels[n].exists /\ creators[n].pc = "done" /\ creators[n].resp = 500) =>
            novels[n].status = FAILED

\* C10: a runner that ended in its outer except clause leaves the Work Item
\* persisted as FAILED.
CriticalErrorMarksFailed ==
    \A r \in RunnerIds :
        runners[r].pc = "crashed" =>
            novels[runners[r].novel_id].status = FAILED

\* Every chapter of novel n is COMPLETED with generated content.
AllChaptersCompleted(n) ==
    \A i \in Rows(n) :
        /\ chapters[n][i].status = COMPLETED
        /\ chapters[n][i].content # NO_CONTENT

\* The runners of novel n started at chapter `number`.
RunnersFrom(rs, n, number) ==
    {r \in RunnerIds : /\ rs[r].pc # "free"
                       /\ rs[r].novel_id = n
                       /\ rs[r].start_from_chapter = number}

\* C8: a retry accepted for a FAILED Work Item whose first FAILED chapter is
\* K and whose regeneration succeeds commits chapter K as COMPLETED with the
\* new content; it then starts one runner at chapter K+1 when K < N, and
\* when K = N sets the Work Item COMPLETED and starts no runner; and after a
\* successful regeneration, unless some generation of the Work Item fails,
\* the Work Item and all its chapters are eventually COMPLETED.
RetryResumption ==
    /\ [][\A q \in RetryIds :
            (retriers[q].pc = "regenerate" /\ retriers'[q].pc = "launch") =>
                LET n == retriers[q].novel_id
                    row == retriers[q].row
                IN  /\ chapters'[n][row].status = COMPLETED
                    /\ chapters'[n][row].content # NO_CONTENT
                    /\ retriers'[q].novelist.next_chapter_num =
                          chapters[n][row].chapter_number + 1]_vars
    /\ [][\A q \in RetryIds :
            (retriers[q].pc = "launch" /\ retriers'[q].pc = "idle") =>
                LET n == retriers[q].novel_id
                    next == retriers[q].novelist.next_chapter_num
                IN  IF next <= Len(chapters[n])
                    THEN Cardinality(RunnersFrom(runners', n, next)) =
                             Cardinality(RunnersFrom(runners, n, next)) + 1
                    ELSE /\ novels'[n].status = COMPLETED
                         /\ runners' = runners]_vars
    /\ \A n \in NovelIds :
          (\E q \in RetryIds :
               retriers[q].pc = "launch" /\ retriers[q].novel_id = n)
          ~> (n \in trouble
              \/ (novels[n].status = COMPLETED /\ AllChaptersCompleted(n)))

\* A retried Work Item is COMPLETED, a runner started by the retry request
\* having generated its remaining chapters without any failure.
ResumedToCompletion ==
    \E r \in RunnerIds :
        /\ runners[r].pc = "completed"
        /\ runners[r].start_from_chapter >= 2
        /\ runners[r].novel_id \notin trouble
        /\ novels[runners[r].novel_id].status = COMPLETED
        /\ AllChaptersCompleted(runners[r].novel_id)

\* Where a runner thread is while it runs, and where it is once its target
\* function has returned.
RunnerRunning == {"start", "loop", "generate"}
RunnerReturned == {"no_novel", "halted", "crashed", "completed"}

\* C11: no exception escapes novelist_bg_task_runner: a thread that was
\* started is running or has returned, whatever failed in it (a generation,
\* a commit, the failure recording itself).
RunnerAlwaysReturns ==
    \A r \in RunnerIds :
        runners[r].pc \in {"free"} \cup RunnerRunning \cup RunnerReturned

\* A runner has returned after the generation of a chapter and the recording
\* of that failure both raised.
RecordingFailureSwallowed ==
    \E r \in RunnerIds : runners[r].pc = "crashed" /\ runners[r].failed_at # 0

\* C12: retry_failed_chapter called for a chapter after the first without
\* previous content raises a validation error and calls the provider not at
\* all.
RetryNeedsPreviousContent ==
    (/\ direct.op = "retry_failed_chapter"
     /\ direct.chapter_number > 1
     /\ direct.previous_content = NoneValue) =>
        /\ direct.result.raised = "ValueError"
        /\ direct.result.provider_calls = 0

\* C13: retry_failed_chapter leaves the Novelist's next_chapter_num,
\* previous_chapter_content and total_text_length as they were, whether it
\* returns a text, rejects the chapter number or the generation raises.
RetryKeepsCursor ==
    direct.op = "retry_failed_chapter" =>
        /\ direct.result.novelist.next_chapter_num =
              direct.novelist.next_chapter_num
        /\ direct.result.novelist.previous_chapter_content =
              direct.novelist.previous_chapter_content
        /\ direct.result.novelist.total_text_length =
              direct.novelist.total_text_length

\* retry_failed_chapter has returned a text for a chapter that is not the
\* one at the cursor of a Novelist that has written chapters.
RetriedOutOfSequence ==
    /\ direct.op = "retry_failed_chapter"
    /\ direct.result.raised = ""
    /\ direct.novelist.total_text_length > 0
    /\ direct.chapter_number + 1 # direct.novelist.next_chapter_num

\* The number of the first FAILED chapter of novel n in chapter order, 0 when
\* it has none.
FirstFailedNumber(n) ==
    LET failed == {chapters[n][i].chapter_number :
                      i \in {j \in Rows(n) : chapters[n][j].status = FAILED}}
    IN  IF failed = {} THEN 0
        ELSE CHOOSE k \in failed : \A m \in failed : k <= m

\* Novel n is in one of the conditions in which a retry is to be refused: not
\* FAILED, without plan, without FAILED chapter, or with a first FAILED
\* chapter after the first whose predecessor is not COMPLETED.
NotRetriable(n) ==
    \/ novels[n].status # FAILED
    \/ novels[n].plots = 0
    \/ FirstFailedNumber(n) = 0
    \/ /\ FirstFailedNumber(n) > 1
       /\ ~\E i \in Rows(n) :
             /\ chapters[n][i].chapter_number = FirstFailedNumber(n) - 1
             /\ chapters[n][i].status = COMPLETED

\* C14: a retry request for a Work Item that is not FAILED, has no plan, has
\* no FAILED chapter or whose first FAILED chapter has a predecessor that is
\* not COMPLETED is rejected: no handler starts working on the Work Item,
\* and the rejected request itself writes nothing and starts no runner.
RetryRejected ==
    [][\A n \in NovelIds : NotRetriable(n) =>
          /\ \A req \in RetryRequests :
                retry_rejection(novels[n], chapters[n], req) # 0
          /\ \A q \in RetryIds :
                (retriers[q].pc = "idle" /\ retriers'[q].pc # "idle") =>
                    retriers'[q].novel_id # n]_vars

\* A retry request was accepted for a FAILED Work Item and its regeneration
\* failed, leaving the chapter GENERATING: the Work Item is FAILED without a
\* FAILED chapter, and the owner's next retry request is answered 400.
RetryRefusedAfterFailedRetry ==
    \E n \in NovelIds :
        /\ n \in trouble
        /\ novels[n].status = FAILED
        /\ novels[n].plots # 0
        /\ FirstFailedNumber(n) = 0
        /\ ActiveRetriers(n) = {}
        /\ retry_rejection(novels[n], chapters[n],
                           [user_id_ok |-> TRUE, owner_ok |-> TRUE]) = 400

\* The row of novel n numbered `number`, 0 when there is none.
RowNumbered(n, number) ==
    IF \E i \in Rows(n) : chapters[n][i].chapter_number = number
    THEN CHOOSE i \in Rows(n) : chapters[n][i].chapter_number = number
    ELSE 0

\* Chapter `number` of novel n exists and is COMPLETED.
CompletedNumber(n, number) ==
    /\ RowNumbered(n, number) # 0
    /\ chapters[n][RowNumbered(n, number)].status = COMPLETED

\* The last chapter of the maximal run of COMPLETED chapters of novel n
\* numbered c + 1, c + 2, ...; c when chapter c + 1 is not COMPLETED.
RunEnd(n, c) ==
    CHOOSE m \in c .. c + Len(chapters[n]) :
        /\ \A k \in c + 1 .. m : CompletedNumber(n, k)
        /\ ~CompletedNumber(n, m + 1)

\* That run as a poll is to return it: each chapter with its number as index
\* and its own content.
CompletedRun(n, c) ==
    [k \in 1 .. RunEnd(n, c) - c |->
        [index |-> c + k,
         content |-> chapters[n][RowNumbered(n, c + k)].content]]

\* C15: a poll of a novel with last-seen index c returns as new_chapters
\* exactly the maximal run of COMPLETED chapters numbered c+1, c+2, ..., each
\* with its own number and content, whatever state the novel is in.
PollReturnsCompletedRun ==
    \A n \in NovelIds, c \in PollIndexes :
        novels[n].exists =>
            NovelContent_get(novels[n], chapters[n], c).new_chapters =
                CompletedRun(n, c)

\* The same for the indexes from 0 on.
PollReturnsCompletedRunFromZero ==
    \A n \in NovelIds, c \in PollIndexes :
        (novels[n].exists /\ c >= 0) =>
            NovelContent_get(novels[n], chapters[n], c).new_chapters =
                CompletedRun(n, c)

\* A chapter of novel n is COMPLETED after the step that was not before it.
NewlyCompleted(n) ==
    \E i \in 1 .. Len(chapters'[n]) :
        /\ chapters'[n][i].status = COMPLETED
        /\ i \in Rows(n) => chapters[n][i].status # COMPLETED

\* The store is as it was.
StoreUnchanged == UNCHANGED <<novels, chapters>>

\* C16: a poll writes nothing to the Novel and Chapter rows, and after a
\* poll of a novel with a last-seen index, as long as no chapter of the novel
\* is completed, a poll with the same index returns the same new_chapters.
PollIsIdempotent ==
    /\ [][direct' # direct => StoreUnchanged]_vars
    /\ [][(direct.op = "poll" /\ ~NewlyCompleted(direct.novel_id)) =>
            NovelContent_get(novels'[direct.novel_id],
                             chapters'[direct.novel_id],
                             direct.current_index).new_chapters =
                NovelContent_get(novels[direct.novel_id],
                                 chapters[direct.novel_id],
                                 direct.current_index).new_chapters]_vars

\* A poll has returned chapters of a novel that is still being generated,
\* and a poll with the same index now returns the same.
PolledTwiceWhileGenerating ==
    /\ direct.op = "poll"
    /\ direct.response.new_chapters # <<>>
    /\ \E i \in Rows(direct.novel_id) :
          chapters[direct.novel_id][i].status = GENERATING
    /\ NovelContent_get(novels[direct.novel_id], chapters[direct.novel_id],
                        direct.current_index) = direct.response

\* C17: in every committed state a COMPLETED chapter holds generated content,
\* not the placeholder; the step that commits a chapter as COMPLETED commits
\* its content with it, and content is committed only by a step that
\* commits the chapter as COMPLETED, in the creation request, the runner and
\* the retry request alike.
AtomicVisibility ==
    /\ [](\A n \in NovelIds : \A i \in Rows(n) :
            chapters[n][i].status = COMPLETED =>
                chapters[n][i].content # NO_CONTENT)
    /\ [][\A n \in NovelIds : \A i \in Rows(n) :
            /\ (chapters'[n][i].status = COMPLETED
                    /\ chapters[n][i].status # COMPLETED) =>
                  chapters'[n][i].content # NO_CONTENT
            /\ chapters'[n][i].content # chapters[n][i].content =>
                  chapters'[n][i].status = COMPLETED]_vars

\* A creation request, a runner and a retry request have each committed a
\* chapter.
CommittedOnEveryPath ==
    /\ \E n \in NovelIds : creators[n].pc = "done" /\ creators[n].resp = 200
    /\ \E r \in RunnerIds :
          runners[r].pc = "loop" /\ runners[r].novelist.total_text_length > 0
    /\ \E q \in RetryIds :
          /\ retriers[q].pc = "launch"
          /\ chapters[retriers[q].novel_id][retriers[q].row].status = COMPLETED

\* C18: calc_chapter_count gives 1 below 4000 characters and the whole
\* number of 2000s in the length from 4000 on (3999 -> 1, 4000 -> 2,
\* 5999 -> 2, 6000 -> 3), and leaves the Novelist as it was.
ChapterCountIsFloor ==
    direct.op = "calc_chapter_count" =>
        /\ direct.text_length < 4000 => direct.result.count = 1
        /\ direct.text_length >= 4000 =>
              /\ 2000 * direct.result.count <= direct.text_length
              /\ direct.text_length < 2000 * (direct.result.count + 1)
        /\ direct.text_length = 3999 => direct.result.count = 1
        /\ direct.text_length = 4000 => direct.result.count = 2
        /\ direct.text_length = 5999 => direct.result.count = 2
        /\ direct.text_length = 6000 => direct.result.count = 3
        /\ direct.result.novelist = direct.novelist

\* calc_chapter_count was called with 5999 on a Novelist that has written
\* chapters.
CountedJustBelowThreeChapters ==
    /\ direct.op = "calc_chapter_count"
    /\ direct.text_length = 5999
    /\ direct.result.count = 2
    /\ direct.novelist.total_text_length > 0

\* Runner r was started by the creation request of a single-chapter novel.
SingleChapterRunner(r) ==
    /\ runners[r].pc # "free"
    /\ runners[r].start_from_chapter = 0
    /\ runners[r].novelist.chapter_count = 1

\* C19: the runner started after the creation of a single-chapter novel
\* finds is_completed() true at once: it never sets a chapter GENERATING nor
\* calls the provider, and the step it takes from its loop commits the novel
\* as COMPLETED (unless that commit itself fails).
SingleChapterCompletesAtOnce ==
    /\ [](\A r \in RunnerIds : SingleChapterRunner(r) =>
            /\ runners[r].pc \notin {"generate", "halted"}
            /\ runners[r].failed_at = 0
            /\ runners[r].pc = "loop" => is_completed(runners[r].novelist))
    /\ [][\A r \in RunnerIds :
            (SingleChapterRunner(r) /\ runners[r].pc = "loop"
                /\ runners'[r].pc # "loop") =>
                \/ /\ runners'[r].pc = "completed"
                   /\ novels'[runners[r].novel_id].status = COMPLETED
                   /\ chapters' = chapters
                \/ runners'[r].pc = "crashed"]_vars

\* The runner of a single-chapter novel has returned with the novel
\* COMPLETED.
SingleChapterNovelCompleted ==
    \E r \in RunnerIds :
        /\ SingleChapterRunner(r)
        /\ runners[r].pc = "completed"
        /\ novels[runners[r].novel_id].status = COMPLETED

\* C20: the retry wrapper invokes the wrapped function at most
\* max_retries + 1 times; it invokes it again only after an error of its
\* retriable set; it returns the first result without another invocation;
\* and a retriable error is re-raised only when the attempt
\* max_retries + 1 failed with it, that last error being the one raised.
WrapperAttemptsBounded ==
    /\ [](direct.op = "retry_on_error" =>
            /\ direct.calls <= direct.max_retries + 1
            /\ direct.pc = "returned" =>
                  direct.result \in Texts /\ direct.raised = NoneValue
            /\ (direct.pc = "raised" /\ direct.raised \in direct.retriable_errors) =>
                  /\ direct.calls = direct.max_retries + 1
                  /\ direct.raised = direct.last_exception
            /\ (direct.pc = "attempt" /\ direct.calls > 0) =>
                  direct.last_exception \in direct.retriable_errors)
    /\ [][(direct.op = "retry_on_error" /\ direct'.op = "retry_on_error"
             /\ direct'.calls > direct.calls) =>
                /\ direct.pc = "attempt"
                /\ direct'.calls = direct.calls + 1
                /\ direct.calls > 0 =>
                      direct.last_exception \in direct.retriable_errors]_vars

\* The JSON preset has given up: its fifth invocation raised a retriable
\* error, which the wrapper re-raised.
WrapperExhausted ==
    /\ direct.op = "retry_on_error"
    /\ direct.preset = "json_generation"
    /\ direct.pc = "raised"
    /\ direct.calls = 5
    /\ direct.raised \in direct.retriable_errors

\* C21: an error outside the wrapper's retriable set (SafetyFilterError,
\* MaxTokensError, RecitationError, APIAuthenticationError, any other
\* exception) is re-raised by the invocation that met it, however many
\* retries remain: no wait follows it and the function is not invoked again.
NonRetriablePropagatesAtOnce ==
    /\ [](direct.op = "retry_on_error" =>
            (direct.outcome \in Errors \ direct.retriable_errors =>
                /\ direct.pc = "raised"
                /\ direct.raised = direct.outcome
                /\ direct.waits = direct.calls - 1))
    /\ [][(direct.op = "retry_on_error" /\ direct'.op = "retry_on_error") =>
            /\ (direct'.calls = direct.calls + 1
                    /\ direct'.outcome \in Errors \ direct.retriable_errors) =>
                  /\ direct'.pc = "raised"
                  /\ direct'.waits = direct.waits
                  /\ direct'.wait_time = direct.wait_time
            /\ direct.pc = "raised" => direct'.calls <= direct.calls]_vars

\* A decorated function raised SafetyFilterError when first invoked, three
\* retries remaining, and the wrapper has re-raised it.
SafetyFilterRaisedAtOnce ==
    /\ direct.op = "retry_on_error"
    /\ direct.pc = "raised"
    /\ direct.raised = "SafetyFilterError"
    /\ direct.max_retries = 3
    /\ direct.calls = 1
    /\ direct.waits = 0

\* C22: InvalidJSONError is retried under the JSON-generation preset only,
\* up to 4 retries and 5 invocations in all; under the preset of
\* generate_plot and generate_chapter and under the quick preset the
\* invocation that raised it is the last one, so a function that raises it
\* when first invoked is invoked exactly once.
InvalidJSONRetriedForJSONOnly ==
    (direct.op = "retry_on_error" /\ direct.outcome = "InvalidJSONError") =>
        IF direct.preset = "json_generation"
        THEN /\ direct.max_retries = 4
             /\ direct.calls <= 4 =>
                   /\ direct.pc = "attempt"
                   /\ direct.waits = direct.calls
             /\ direct.calls > 4 =>
                   /\ direct.calls = 5
                   /\ direct.pc = "raised"
                   /\ direct.raised = "InvalidJSONError"
        ELSE /\ direct.pc = "raised"
             /\ direct.raised = "InvalidJSONError"
             /\ direct.waits = direct.calls - 1
             /\ direct.last_exception = NoneValue => direct.calls = 1

\* generate_init's decorator has re-raised the InvalidJSONError of its fifth
\* invocation, the four before it having failed with it as well or with
\* another retriable error.
InvalidJSONGivenUp ==
    /\ direct.op = "retry_on_error"
    /\ direct.preset = "json_generation"
    /\ direct.raised = "InvalidJSONError"
    /\ direct.calls = 5
    /\ direct.waits = 4

\* C23: every wait of the retry wrapper between two attempts is at most
\* max_delay, the backoff wait after jitter and the rate-limit wait taken
\* from retry_after alike.
WaitsWithinMaxDelay ==
    (direct.op = "retry_on_error" /\ direct.waits > 0) =>
        direct.wait_time <= direct.max_delay

\* Under the three presets no wait reaches max_delay: their delays stay
\* below two thirds of it for all the retries they allow.
PresetWaitsWithinMaxDelay ==
    (direct.op = "retry_on_error" /\ direct.waits > 0
        /\ direct.preset # "retry_on_error") =>
            direct.wait_time <= direct.max_delay

\* The value is a list of objects whose fields `keys` are all strings.
ListOfObjectsWith(value, keys) ==
    /\ value.kind = "list"
    /\ \A j \in 1 .. Len(value.items) :
          /\ value.items[j].kind = "object"
          /\ \A key \in keys : value.items[j].fields[key].kind = "str"

\* The payload is a JSON object with string fields title, summary and plot,
\* a non-empty list characters of objects with string name and role, and a
\* list chapter_plots of `expected` objects with string plot.
WellFormedPlan(payload, expected) ==
    /\ payload.kind = "object"
    /\ \A key \in {"title", "summary", "plot"} : payload.fields[key].kind = "str"
    /\ ListOfObjectsWith(payload.fields.characters, {"name", "role"})
    /\ Len(payload.fields.characters.items) > 0
    /\ ListOfObjectsWith(payload.fields.chapter_plots, {"plot"})
    /\ Len(payload.fields.chapter_plots.items) = expected

\* C25: validate_novel_init_json accepts a payload if and only if it is a
\* JSON object with string fields title, summary and plot, a non-empty list
\* characters whose items are objects with string name and role, and a list
\* chapter_plots whose items are objects with string plot and whose length
\* is expected_chapter_count; every other payload raises InvalidJSONError.
AcceptsWellFormedPlansOnly ==
    direct.op = "validate_novel_init_json" =>
        /\ direct.result \in {"ok", "InvalidJSONError"}
        /\ direct.result = "ok" <=>
              WellFormedPlan(direct.payload, direct.expected_chapter_count)

\* A payload right in every field but with an empty list of characters has
\* been refused.
RefusedForNoCharacters ==
    /\ direct.op = "validate_novel_init_json"
    /\ direct.result = "InvalidJSONError"
    /\ direct.payload.kind = "object"
    /\ direct.payload.fields.characters = ListOf(<<>>)
    /\ WellFormedPlan(
          [direct.payload EXCEPT !.fields.characters =
              ListOf(<<[kind |-> "object",
                        fields |-> [name |-> Scalar("str"),
                                    role |-> Scalar("str")]]>>)],
          direct.expected_chapter_count)

\* The provider's last answer to generate_init was a plan whose number of
\* chapter plots is not the computed chapter count.
PlanMismatched ==
    /\ direct.op = "prepare_novel"
    /\ direct.response # NoPlan
    /\ direct.response # direct.chapter_count

\* C24: a plan whose chapter_plots length differs from the computed chapter
\* count is never accepted or truncated: generate_init raises
\* InvalidJSONError for it, its decorator invokes it again up to the fifth
\* invocation, and when all five answers mismatch the creation request
\* fails with that error, answered 500. A plan prepare_novel keeps is the
\* provider's answer with exactly chapter_count chapter plots.
MismatchedPlanNeverAccepted ==
    direct.op = "prepare_novel" =>
        /\ direct.pc = "prepared" =>
              /\ direct.chapter_plots = direct.chapter_count
              /\ direct.chapter_plots = direct.response
        /\ PlanMismatched =>
              /\ direct.pc # "prepared"
              /\ direct.wrapper.outcome = "InvalidJSONError"
              /\ direct.wrapper.calls < 5 =>
                    direct.pc = "generate_init" /\ direct.wrapper.pc = "attempt"
              /\ direct.wrapper.calls = 5 =>
                    /\ direct.pc = "failed"
                    /\ direct.raised = "InvalidJSONError"
                    /\ direct.code = 500
        /\ direct.mismatches = 5 =>
              direct.pc = "failed" /\ direct.code = 500

\* Five answers in a row were plans of the wrong length, and the creation
\* request has been answered 500.
AllFivePlansMismatched ==
    /\ direct.op = "prepare_novel"
    /\ direct.mismatches = 5
    /\ direct.pc = "failed"
    /\ direct.code = 500

\* C26: validate_response classifies a response with candidates by the
\* finish reason of the first: SAFETY, BLOCKLIST and PROHIBITED_CONTENT
\* raise SafetyFilterError, MAX_TOKENS raises MaxTokensError, RECITATION
\* raises RecitationError, every other reason but STOP raises
\* UnexpectedFinishReasonError; and it returns if and only if there are
\* candidates, the first has content with parts, and its finish reason is
\* STOP or absent.
ClassifiedByFinishReason ==
    direct.op = "validate_response" =>
        /\ direct.response.candidates = "some" =>
              /\ direct.response.finish_reason
                      \in {"SAFETY", "BLOCKLIST", "PROHIBITED_CONTENT"} =>
                    direct.result = "SafetyFilterError"
              /\ direct.response.finish_reason = "MAX_TOKENS" =>
                    direct.result = "MaxTokensError"
              /\ direct.response.finish_reason = "RECITATION" =>
                    direct.result = "RecitationError"
              /\ direct.response.finish_reason
                      \in {"OTHER", "FINISH_REASON_UNSPECIFIED", "LANGUAGE"} =>
                    direct.result = "UnexpectedFinishReasonError"
        /\ direct.result = "ok" <=>
              /\ direct.response.candidates = "some"
              /\ direct.response.content = "parts"
              /\ direct.response.finish_reason \in {"STOP", "absent"}

\* A response with parts whose finish reason is PROHIBITED_CONTENT has been
\* refused with SafetyFilterError.
ProhibitedContentRefused ==
    /\ direct.op = "validate_response"
    /\ direct.response.candidates = "some"
    /\ direct.response.content = "parts"
    /\ direct.response.finish_reason = "PROHIBITED_CONTENT"
    /\ direct.result = "SafetyFilterError"

\* C27: a response with no candidates, or whose first candidate has no
\* content or no parts while its finish reason is STOP or absent, raises
\* EmptyResponseError.
EmptyResponseClassified ==
    (/\ direct.op = "validate_response"
     /\ \/ direct.response.candidates = "none"
        \/ /\ direct.response.content \in {"missing", "no_parts"}
           /\ direct.response.finish_reason \in {"STOP", "absent"}) =>
        direct.result = "EmptyResponseError"

\* What does hold: an empty response is EmptyResponseError unless its
\* finish reason is STOP, when it is UnexpectedFinishReasonError.
EmptyResponseClassifiedButForStop ==
    (/\ direct.op = "validate_response"
     /\ \/ direct.response.candidates = "none"
        \/ /\ direct.response.content \in {"missing", "no_parts"}
           /\ direct.response.finish_reason \in {"STOP", "absent"}) =>
        direct.result =
            IF direct.response.candidates = "some"
                /\ direct.response.finish_reason = "STOP"
            THEN "UnexpectedFinishReasonError"
            ELSE "EmptyResponseError"

\* The Novelists of the requests and runners under way.
LiveNovelists ==
    {creators[n].novelist : n \in NovelIds} \cup
    {runners[r].novelist : r \in RunnerIds} \cup
    {retriers[q].novelist : q \in RetryIds}

\* C28: in every reachable state, after creation, after a runner's start
\* with start_from_chapter and after the re-arming of a retry, the cursor of
\* a Novelist satisfies 1 <= next_chapter_num <= chapter_count + 1, and
\* is_completed() is true if and only if the cursor is greater than
\* chapter_count: the runner's loop never steps past the last chapter.
CursorWithinBounds ==
    \A novelist \in LiveNovelists :
        /\ 1 <= novelist.next_chapter_num
        /\ novelist.next_chapter_num <= novelist.chapter_count + 1
        /\ is_completed(novelist) <=>
              novelist.next_chapter_num > novelist.chapter_count

\* A runner started by a retry from the chapter after the retried one has
\* written the chapters left and found is_completed() true.
ResumedRunnerAtEnd ==
    \E r \in RunnerIds :
        /\ runners[r].start_from_chapter > 1
        /\ runners[r].pc = "completed"
        /\ runners[r].novelist.total_text_length > 0
        /\ runners[r].novelist.next_chapter_num =
              runners[r].novelist.chapter_count + 1

\* The steps of a chapter's status the state machine has.
ChapterStatusSteps ==
    {<<PENDING, GENERATING>>, <<GENERATING, COMPLETED>>,
     <<GENERATING, FAILED>>, <<FAILED, GENERATING>>}

ResumeRoundTrip ==
    direct.op = "load_from_init_data" =>
        LET prepared == direct.prepared.novelist
            loaded == direct.loaded.novelist
        IN  /\ direct.loaded.raised = ""
            /\ loaded.plot = prepared.plot
            /\ loaded.chapter_plots = prepared.chapter_plots
            /\ loaded.chapter_count = prepared.chapter_count
            /\ loaded.other_novel_data = prepared.other_novel_data
            /\ direct.loaded.provider_calls = 0
            /\ loaded.next_chapter_num = direct.resumed.next_chapter_num
            /\ loaded.previous_chapter_content
                   = direct.resumed.previous_chapter_content

\* A two-chapter plan whose plot holds a quote and which carries a field
\* beyond the schema was loaded by a Novelist that had already written.
LoadedQuotedPlanMidway ==
    /\ direct.op = "load_from_init_data"
    /\ direct.loaded.raised = ""
    /\ direct.chapter_count = 2
    /\ \E i \in 1 .. Len(direct.loaded.novelist.plot.chars) :
           direct.loaded.novelist.plot.chars[i] = "\""
    /\ has_key(direct.loaded.novelist.other_novel_data, Key.theme)
    /\ direct.resumed.next_chapter_num > 1

\* The content persisted for the chapter numbered `number`, None when there
\* is no such chapter.
PersistedContent(rows, number) ==
    IF number < 1 \/ row_with_number(rows, number) = 0 THEN NoneValue
    ELSE rows[row_with_number(rows, number)].content

\* The previous chapter a retry request hands to generate_chapter.
RetryPreviousChapter(q) ==
    retry_failed_chapter(
        retriers[q].novelist,
        chapters[retriers[q].novel_id][retriers[q].row].chapter_number,
        IF retriers[q].previous_content = "" THEN NoneValue
        ELSE retriers[q].previous_content,
        Text(1)).previous_chapter

WriteNextChapterAdvances ==
    direct.op = "write_next_chapter" =>
        LET before == direct.novelist
            after == direct.result.novelist
        IN  IF direct.result.raised = ""
            THEN /\ direct.result.content = direct.generated
                 /\ after.next_chapter_num = before.next_chapter_num + 1
                 /\ after.total_text_length
                        = before.total_text_length + Len(direct.result.content)
            ELSE /\ after.next_chapter_num = before.next_chapter_num
                 /\ after.previous_chapter_content
                        = before.previous_chapter_content
                 /\ after.total_text_length = before.total_text_length

\* generate_chapter raised in a write_next_chapter call for a chapter after
\* the first.
WriteNextChapterRaisedMidway ==
    /\ direct.op = "write_next_chapter"
    /\ direct.result.raised # ""
    /\ direct.novelist.next_chapter_num > 1
    /\ direct.novelist.previous_chapter_content # ""

\* C34: in the step in which the creation path starts the background
\* runner, the persisted novel is GENERATING, its chapter 1 is COMPLETED with
\* the text returned as first_chapter_text, its chapters 2..N are PENDING,
\* and the returned total_chapter_number is N.
PersistedAtLaunch ==
    [][\A n \in NovelIds :
          creators[n].pc = "first_done" /\ creators'[n].pc = "done" =>
              LET rows == chapters[n]
                  body == init_response_body(creators[n].novelist)
              IN  /\ creators'[n].resp = 200
                  /\ novels[n].exists /\ novels[n].status = GENERATING
                  /\ Len(rows) = body.total_chapter_number
                  /\ \A i \in 1 .. Len(rows) : rows[i].chapter_number = i
                  /\ rows[1].status = COMPLETED
                  /\ rows[1].content = body.first_chapter_text
                  /\ body.first_chapter_text \in Texts
                  /\ \A i \in 2 .. Len(rows) :
                        rows[i].status = PENDING /\ rows[i].content = NO_CONTENT]_vars

\* A three-chapter novel was created and its runner launched, and the runner
\* has not written yet.
LaunchedThreeChapters ==
    \E n \in NovelIds, r \in RunnerIds :
        /\ creators[n].pc = "done" /\ creators[n].resp = 200
        /\ runners[r].pc = "start" /\ runners[r].novel_id = n
        /\ Len(chapters[n]) = 3
        /\ chapters[n][2].status = PENDING

\* C35: a creation request that fails before persistence (unknown owner,
\* missing settings, plan generation failing after its retries, a plan of
\* the wrong chapter count, an invalid genre code) inserts no novel and no
\* chapter, starts no runner and leaves the handler where it was.
RejectedCreationWritesNothing ==
    [][direct' # direct /\ direct'.op = "NovelInit.post" /\ direct'.code # 0
       => /\ UNCHANGED <<novels, chapters, runners, creators>>
          /\ ~novels'[direct'.novel_id].exists
          /\ chapters'[direct'.novel_id] = <<>>
          /\ \A r \in RunnerIds : runners'[r].novel_id # direct'.novel_id]_vars

\* A request with an invalid genre code whose plan was generated with the
\* right chapter count was refused while another novel was in the making.
RefusedForGenreAfterPlan ==
    /\ direct.op = "NovelInit.post"
    /\ direct.code = 400
    /\ direct.request.invalid = "genre"
    /\ direct.request.plan = calc_chapter_count(direct.request.text_length)
    /\ direct.novel_id = 2
    /\ ~novels[2].exists
    /\ novels[1].exists

NovelUntouched(b) == novels'[b] = novels[b] /\ chapters'[b] = chapters[b]

\* C38: a step of a background runner or of a retry request of one novel
\* leaves the status and the chapters of every other novel unchanged,
\* whatever the other threads are doing.
RunnersIndependent ==
    [][/\ \A r \in RunnerIds :
             runners[r].pc # "free" /\ runners'[r] # runners[r]
             => \A b \in NovelIds \ {runners[r].novel_id} : NovelUntouched(b)
       /\ \A q \in RetryIds :
             retriers'[q] # retriers[q]
             => \A b \in NovelIds \ {IF retriers[q].pc = "idle"
                                      THEN retriers'[q].novel_id
                                      ELSE retriers[q].novel_id} :
                    NovelUntouched(b)]_vars

\* The runner of one novel has completed it while the runner of another
\* novel is waiting for the provider.
CompletedBesideGeneratingNovel ==
    \E r, t \in RunnerIds :
        /\ runners[r].pc = "completed"
        /\ runners[t].pc = "generate"
        /\ runners[t].novel_id # runners[r].novel_id
        /\ novels[runners[r].novel_id].status = COMPLETED
        /\ novels[runners[t].novel_id].status = GENERATING

\* The characters of a text other than line breaks, in their order.
NotNewline(c) == c # "\n"

\* C39: extract_json_from_text returns the text, its line breaks removed,
\* from its first "{" to its last "}" inclusive, and raises InvalidJSONError
\* with nothing returned exactly when the text has no "{" or has no "}"
\* after its first "{".
ExtractsFirstToLastBrace ==
    direct.op = "extract_json_from_text" =>
        LET text == SelectSeq(direct.text, NotNewline)
            opens == {i \in 1 .. Len(text) : text[i] = "{"}
            first == CHOOSE i \in opens : \A j \in opens : i <= j
            closes == {i \in 1 .. Len(text) : text[i] = "}" /\ i > first}
            last == CHOOSE i \in closes : \A j \in closes : i >= j
        IN  IF opens = {} \/ closes = {}
            THEN /\ direct.result.raised = "InvalidJSONError"
                 /\ direct.result.json_text = <<>>
            ELSE /\ direct.result.raised = ""
                 /\ direct.result.json_text
                        = [i \in 1 .. last - first + 1 |-> text[first + i - 1]]
                 /\ Head(direct.result.json_text) = "{"
                 /\ direct.result.json_text[Len(direct.result.json_text)] = "}"

\* A text with a line break inside its braces and a "}" before the last one
\* was extracted.
ExtractedAcrossInnerBrace ==
    /\ direct.op = "extract_json_from_text"
    /\ direct.text = <<"{", "}", "\n", "}">>
    /\ direct.result.raised = ""
    /\ direct.result.json_text = <<"{", "}", "}">>

\* C40: when the wrapper waits before its k-th retry, its delay before
\* jitter and cap is initial_delay * backoff_factor^(k-1), the value of
\* calculate_retry_delay(k-1) for the decorator's initial_delay and
\* backoff_factor, whatever errors were waited out before and whether or not
\* an earlier wait was taken from a rate limit's retry_after.
BackoffDelayIsExponential ==
    [][direct.op = "retry_on_error" /\ direct'.op = "retry_on_error"
       /\ direct'.waits = direct.waits + 1
       => direct.delay = calculate_retry_delay(direct'.waits - 1,
                                               direct.initial_delay,
                                               direct.backoff_factor)]_vars

\* The JSON preset has waited before its fourth retry, the wait taken from a
\* rate limit's retry_after.
FourthRetryAfterRateLimit ==
    /\ direct.op = "retry_on_error"
    /\ direct.preset = "json_generation"
    /\ direct.waits = 4
    /\ direct.outcome = "RateLimitError"
    /\ direct.wait_time = 1000
    /\ direct.delay = 20995
    /\ direct.pc = "attempt"

====
